---- MODULE Spec2Model ----
(***************************************************************************)
(* The SMTP session engine of smtp-client (src/src/connection/mod.rs):     *)
(* one MailerConnection driven by its caller through connect, send_mail,   *)
(* close and drop, against a server whose replies and whose transport      *)
(* failures are chosen nondeterministically at every read and write.       *)
(*                                                                         *)
(* Every step of try_connect, try_send_mail and try_close that touches the *)
(* transport is one action; the retry loops of connect, send_mail and      *)
(* close are folded into the step that ends an attempt.                    *)
(***************************************************************************)
EXTENDS Integers, Naturals, Sequences, FiniteSets

(***************************************************************************)
(* Bounds of the model.                                                    *)
(***************************************************************************)
\* Largest value of config.retries that is explored.
MaxRetries == 1
\* Largest number of lines in an EHLO reply.
MaxLines == 3
\* Largest number of tokens in a mail body.
MaxText == 4
\* Bytes of a reply line's text that the model keeps.
MaxTextKept == 6
\* Largest batch handed to the submission pool.
MaxMails == 3
\* Largest max_workers handed to the submission pool.
MaxWorkers == 2
\* Largest number of reply lines on a byte stream the parser reads.
MaxWireLines == 3

(***************************************************************************)
(* Values.                                                                 *)
(***************************************************************************)
\* enum Support
Support == {"Supported", "NotSupported", "Unknown"}

\* The fields of ServerMeta that the connection reads and writes.
Caps == {"tls", "eight_bit_mime", "pipelining", "auth_plain", "auth_login"}

\* ServerMeta::new(): every capability Unknown.
MetaNew == [c \in Caps |-> "Unknown"]

\* SmtpErr::retriable(): Network, DNS, ServerUnavailable, ServerUnreachable.
Retriable(e) == e \in {"Network", "DNS", "ServerUnavailable", "ServerUnreachable"}

\* The status codes the connection distinguishes, and 500 standing for the
\* remaining recognised codes (none of which the connection treats specially).
Codes == {220, 221, 235, 250, 251, 334, 354, 421, 450, 500, 535, 550, 551, 553, 554}

\* StatusCode::ServiceNotAvailable and StatusCode::TransactionFailed.
Fatal(code) == code = 421 \/ code = 554

\* to_uppercase() on the words that occur in EHLO replies.
Upper(w) ==
    CASE w = "pipelining" -> "PIPELINING"
      [] w = "auth" -> "AUTH"
      [] w = "login" -> "LOGIN"
      [] w = "hi" -> "HI"
      [] OTHER -> w

\* A reply line with no text of interest.
L(c) == [code |-> c, text |-> <<"hi">>]

\* The lines a server may put in an EHLO reply, in the order in which a
\* reply lists them.
EhloLines ==
    << L(250),
       [code |-> 250, text |-> <<"STARTTLS">>],
       [code |-> 250, text |-> <<"AUTH", "PLAIN">>],
       L(500), L(421),
       [code |-> 250, text |-> <<"8BITMIME">>],
       [code |-> 250, text |-> <<"pipelining">>],
       [code |-> 250, text |-> <<"auth", "login">>] >>

\* Non-empty sequences over S of length at most n.
SeqUpTo(S, n) == UNION { [1..k -> S] : k \in 1..n }

\* The well-formed replies to EHLO: at most MaxLines of EhloLines, each at
\* most once, in their order.
EhloReplies ==
    { [k \in DOMAIN ix |-> EhloLines[ix[k]]] :
        ix \in { s \in SeqUpTo(DOMAIN EhloLines, MaxLines) :
                   \A i, j \in DOMAIN s : i < j => s[i] < s[j] } }

\* The well-formed replies to the other commands: one line of any code, or
\* a reply of two lines, the second coded as the first or 421.
LineReplies ==
    { <<L(c)>> : c \in Codes }
        \cup { <<L(c), L(c)>> : c \in {220, 250} }
        \cup { <<L(c), L(421)>> : c \in {220, 250} }

\* What one reply read produces on the transport: a read error, bytes the
\* parser rejects, or a well-formed reply.
ReadOutcomes(replies) ==
    { [kind |-> "net", lines |-> <<>>], [kind |-> "garbled", lines |-> <<>>] }
        \cup { [kind |-> "lines", lines |-> l] : l \in replies }

VARIABLES
    cfg,        \* Config: retries, auto_quit, pipeline
    sock,       \* self.stream: "open" or "shut" (after shutdown(Both))
    tlscon,     \* self.tlscon: "none", "live" (made on this socket), "stale"
    meta,       \* self.server.meta
    op,         \* the public operation in progress
    pc,         \* position inside the operation
    retries,    \* the local `retries` of the running retry loop
    result,     \* what the last finished operation returned
    handed,     \* the caller holds the connection (Mailer::connect returned it)
    mail,       \* the mail of the running send_mail
    io,         \* the transport access made by the last step, if it made one
    fail,       \* the failure of the attempt in the last step, if it failed
    upgraded,   \* start_tls completed on the current socket
    closed421,  \* a 421 reply line made the session terminate
    late421,    \* the running operation was called after closed421
    nfail,      \* failed attempts of the running operation
    termBy,     \* what terminated the session on the current socket, if anything
    lateTerm,   \* termBy when the running operation was called
    sent,       \* how often the running operation wrote a payload and its terminator
    pool,       \* the submission pool: queue, result slots, workers
    body,       \* a mail body on its way to the transport
    parser,     \* a Parser reading replies from a byte stream
    ehlo,       \* an EHLO reply and the capability set handshake() makes of it
    codec,      \* credentials and the token the codec makes of them
    logger,     \* a FileLogger and the file it writes
    addr        \* an address, check_address's verdict and the command rendered

\* The variables of one session.
sessVars ==
    << cfg, sock, tlscon, meta, op, pc, retries, result, handed, mail, io, fail,
       upgraded, closed421, late421, nfail, termBy, lateTerm, sent >>

vars ==
    << cfg, sock, tlscon, meta, op, pc, retries, result, handed, mail, io, fail,
       upgraded, closed421, late421, nfail, termBy, lateTerm, sent, pool, body,
       parser, ehlo, codec, logger, addr >>

\* The variables of the codec, the file sink and the address validator.
pureVars == <<codec, logger, addr>>

(***************************************************************************)
(* The session: transport state and capability set.                        *)
(***************************************************************************)
\* The fields of MailerConnection that a transport access may change.
Sess == [sock |-> sock, tlscon |-> tlscon, meta |-> meta]

SetSess(s) == sock' = s.sock /\ tlscon' = s.tlscon /\ meta' = s.meta

\* MailerConnection::is_tls(): self.tlscon.is_some().
IsTls(t) == t # "none"

\* The channel write(), recv_line() and recv_reply() pick for a session.
Via == IF IsTls(tlscon) THEN "tls" ELSE "plain"

\* MailerConnection::terminate(): shut the socket down, drop the TLS session,
\* forget the capabilities.
Terminate(s) == [sock |-> "shut", tlscon |-> "none", meta |-> MetaNew]

\* Whether a write on the socket can succeed: never after shutdown(Both).
WriteOutcomes == IF sock = "shut" THEN {FALSE} ELSE BOOLEAN

\* What a read can deliver.  A socket that was shut down delivers end of
\* stream, which the parser rejects, or an error; a TLS session negotiated
\* on an earlier socket cannot decrypt what the new peer sends.
ReadsOn(replies) ==
    IF tlscon = "stale" THEN { [kind |-> "net", lines |-> <<>>] }
    ELSE IF sock = "shut"
         THEN { [kind |-> "net", lines |-> <<>>], [kind |-> "garbled", lines |-> <<>>] }
         ELSE ReadOutcomes(replies)

\* The error stream_recv_line / stream_recv_reply returns for a read that
\* does not yield a reply: Network from recv_char, Protocol from the parser.
ReadErr(r) == IF r.kind = "net" THEN "Network" ELSE "Protocol"

\* MailerConnection::recv_line on read outcome r.  A failed read returns by `?`
\* after self.tlscon.take(), so the TLS session is gone; only the first line
\* of the reply is examined, the continuation lines are read and discarded.
RecvLine(s, r) ==
    IF r.kind # "lines"
    THEN [ret |-> ReadErr(r), s |-> [s EXCEPT !.tlscon = "none"]]
    ELSE IF Fatal(r.lines[1].code)
         THEN [ret |-> "ServerUnavailable", s |-> Terminate(s)]
         ELSE [ret |-> "Ok", s |-> s]

\* MailerConnection::recv_reply on read outcome r: every line is examined.
RecvReply(s, r) ==
    IF r.kind # "lines"
    THEN [ret |-> ReadErr(r), s |-> [s EXCEPT !.tlscon = "none"]]
    ELSE IF \E i \in DOMAIN r.lines : Fatal(r.lines[i].code)
         THEN [ret |-> "ServerUnavailable", s |-> Terminate(s)]
         ELSE [ret |-> "Ok", s |-> s]

(***************************************************************************)
(* handshake(): the capability set after an EHLO reply.                    *)
(***************************************************************************)
\* The words of an AUTH line: PLAIN and LOGIN set their flags.
AuthWords(m, up) ==
    [m EXCEPT
       !.auth_plain = IF \E i \in 2..Len(up) : up[i] = "PLAIN" THEN "Supported" ELSE @,
       !.auth_login = IF \E i \in 2..Len(up) : up[i] = "LOGIN" THEN "Supported" ELSE @]

\* One line of the reply, upper-cased and matched against the keywords.
LineMeta(m, text) ==
    LET up == [k \in DOMAIN text |-> Upper(text[k])] IN
    IF up = <<"STARTTLS">> THEN [m EXCEPT !.tls = "Supported"]
    ELSE IF up = <<"8BITMIME">> THEN [m EXCEPT !.eight_bit_mime = "Supported"]
    ELSE IF up = <<"PIPELINING">> THEN [m EXCEPT !.pipelining = "Supported"]
    ELSE IF Len(up) >= 1 /\ up[1] = "AUTH" THEN AuthWords(m, up)
    ELSE m

\* The loop over the reply lines: a line not coded 250 ends it with Protocol,
\* keeping what the earlier lines set.
RECURSIVE HandshakeLines(_, _, _)
HandshakeLines(m, lines, i) ==
    IF i > Len(lines) THEN [ret |-> "Ok", meta |-> m]
    ELSE IF lines[i].code # 250 THEN [ret |-> "Protocol", meta |-> m]
    ELSE HandshakeLines(LineMeta(m, lines[i].text), lines, i + 1)

\* The resets made before the loop, as a plausible slip would make them:
\* auth_plain is left alone under TLS.
HandshakeResetKeepPlain(m, tls) == [m EXCEPT !.tls = "NotSupported"]

\* The resets made before the loop: tls always, auth_plain under TLS.
HandshakeReset(m, tls) ==
    [m EXCEPT !.tls = "NotSupported",
              !.auth_plain = IF tls THEN "NotSupported" ELSE @]

\* handshake() after the reply was read.
Handshake(m, tls, lines) == HandshakeLines(HandshakeReset(m, tls), lines, 1)

(***************************************************************************)
(* The retry loops of connect, send_mail and close.                        *)
(***************************************************************************)
NoMail == [from |-> "-", to |-> "-", attachments |-> FALSE]
NoIo ==
    [dir |-> "-", cmd |-> "-", via |-> "-", res |-> "-", code |-> 0, bad |-> FALSE,
     adv |-> {}, plain |-> FALSE]
NoFail == [err |-> "-", cause |-> "-", budget |-> 0, retried |-> FALSE, arg |-> "-"]

\* The first step of each operation's attempt.
StartPc(o) ==
    CASE o = "connect" -> "resolve"
      [] o = "send_mail" -> "m_check"
      [] OTHER -> "q_send"

\* Where control is when the loop has executed its `return`.
ReturnPc == "returned"

\* The loop's test, as a plausible slip would make it: the kind is not asked.
RetryAnyKind(e, n) == n > 0

\* The loop's test, as a plausible slip would make it: an empty budget still
\* buys a retry.
RetryOnceMore(e, n) == Retriable(e) /\ n >= 0

\* The loop's test: retry a retriable error while budget is left.
Retry(e, n) == Retriable(e) /\ n > 0

\* Continue the attempt at p.  The final reply is next once the terminator
\* has been written after the payload.
Goto(p) ==
    /\ pc' = p
    /\ fail' = NoFail
    /\ sent' = IF p = "m_final" THEN sent + 1 ELSE sent
    /\ UNCHANGED <<retries, result, nfail, handed, mail>>

\* The attempt returned Ok: the operation returns Ok.
AttemptOk ==
    /\ pc' = ReturnPc
    /\ result' = "Ok"
    /\ handed' = TRUE
    /\ fail' = NoFail
    /\ retries' = 0
    /\ mail' = NoMail
    /\ UNCHANGED <<nfail, sent>>

\* The attempt returned Err(e(arg)) (the failure arose as `cause`): the loop
\* retries, or the operation returns Err(e).
AttemptFailsWith(e, cause, arg) ==
    /\ nfail' = nfail + 1
    /\ fail' = [err |-> e, cause |-> cause, budget |-> retries,
                retried |-> Retry(e, retries), arg |-> arg]
    /\ UNCHANGED <<handed, sent>>
    /\ IF Retry(e, retries)
       THEN pc' = StartPc(op) /\ retries' = retries - 1 /\ UNCHANGED <<result, mail>>
       ELSE pc' = ReturnPc /\ result' = e /\ retries' = 0 /\ mail' = NoMail

\* The attempt returned an error that carries nothing.
AttemptFails(e, cause) == AttemptFailsWith(e, cause, "-")

GotoOrDone(next) == IF next = "done" THEN AttemptOk ELSE Goto(next)

(***************************************************************************)
(* Steps.  Each sets io to the transport access it makes.                  *)
(***************************************************************************)
callVars == <<cfg, op, late421, lateTerm, pool, body, parser, ehlo, pureVars>>

\* What terminated the session once the reply r to `cmd` has been received
\* with outcome got: a 421 in answer to DATA, or another 421 or 554.
TermAfter(cmd, got, r) ==
    IF got.ret = "ServerUnavailable"
    THEN IF cmd = "DATA" /\ r.lines[1].code = 421 THEN "data421" ELSE "reply"
    ELSE termBy

IoWrite(cmd, ok) ==
    [dir |-> "w", cmd |-> cmd, via |-> Via, res |-> IF ok THEN "ok" ELSE "net",
     code |-> 0, bad |-> FALSE, adv |-> {}, plain |-> FALSE]

\* The capabilities an EHLO reply advertises: a line coded 250 whose text,
\* letter case aside, is the keyword, or an AUTH line naming the mechanism.
Advertises(line, c) ==
    LET up == [k \in DOMAIN line.text |-> Upper(line.text[k])] IN
    /\ line.code = 250
    /\ CASE c = "tls" -> up = <<"STARTTLS">>
         [] c = "eight_bit_mime" -> up = <<"8BITMIME">>
         [] c = "pipelining" -> up = <<"PIPELINING">>
         [] c = "auth_plain" -> up[1] = "AUTH" /\ \E i \in 2..Len(up) : up[i] = "PLAIN"
         [] c = "auth_login" -> up[1] = "AUTH" /\ \E i \in 2..Len(up) : up[i] = "LOGIN"

Advertised(lines) == { c \in Caps : \E i \in DOMAIN lines : Advertises(lines[i], c) }

\* A read of the reply to `cmd`: the channel, the outcome, the first line's
\* code, whether any line is coded 421 or 554, what an EHLO reply advertises
\* and whether auth_plain was Supported when the EHLO reply came.
IoRead(cmd, r) ==
    [dir |-> "r", cmd |-> cmd, via |-> Via,
     res |-> IF r.kind = "lines" THEN "ok" ELSE r.kind,
     code |-> IF r.kind = "lines" THEN r.lines[1].code ELSE 0,
     bad |-> r.kind = "lines" /\ \E i \in DOMAIN r.lines : Fatal(r.lines[i].code),
     adv |-> IF r.kind = "lines" THEN Advertised(r.lines) ELSE {},
     plain |-> cmd = "EHLO" /\ meta.auth_plain = "Supported"]

\* MailerConnection::write of the bytes called `cmd`, then continue at next.
\* A failed write under TLS returns by `?` after self.tlscon.take().
Write(cmd, next) ==
    \E ok \in WriteOutcomes :
        /\ io' = IoWrite(cmd, ok)
        /\ IF ok
           THEN GotoOrDone(next) /\ UNCHANGED tlscon
           ELSE tlscon' = "none" /\ AttemptFails("Network", "Network")
        /\ UNCHANGED <<sock, meta, upgraded, closed421, termBy, callVars>>

\* What the error carries: MailBoxName the address of the command, Forward
\* the text of the reply's first line (one word in the replies explored).
ErrArg(e, cmd, r) ==
    IF e = "MailBoxName" THEN (IF cmd = "MAIL FROM" THEN mail.from ELSE mail.to)
    ELSE IF e = "Forward" THEN r.lines[1].text[1]
    ELSE "-"

\* recv_line() of the reply to `cmd`, its code classified by the function
\* classify, then continue at next.
ExpectLine(cmd, classify, next) ==
    \E r \in ReadsOn(LineReplies) :
        LET got == RecvLine(Sess, r)
            e == IF got.ret # "Ok" THEN got.ret ELSE classify[r.lines[1].code]
        IN  /\ io' = IoRead(cmd, r)
            /\ SetSess(got.s)
            /\ closed421' = (closed421 \/ (r.kind = "lines" /\ r.lines[1].code = 421))
            /\ termBy' = TermAfter(cmd, got, r)
            /\ IF e = "Ok"
               THEN GotoOrDone(next)
               ELSE AttemptFailsWith(e, e, ErrArg(e, cmd, r))
            /\ UNCHANGED <<upgraded, callVars>>

\* Line::expect(code)
Expect220(code) == IF code = 220 THEN "Ok" ELSE "Protocol"
\* The test of a challenge, as a plausible slip would make it: 250 passes too.
Expect334Or250(code) == IF code = 334 \/ code = 250 THEN "Ok" ELSE "Protocol"
Expect334(code) == IF code = 334 THEN "Ok" ELSE "Protocol"
\* The test of DATA's reply, as a plausible slip would make it: 250 passes too.
Expect354Or250(code) == IF code = 354 \/ code = 250 THEN "Ok" ELSE "Protocol"
Expect354(code) == IF code = 354 THEN "Ok" ELSE "Protocol"
\* The test of QUIT's reply, as a plausible slip would make it: 250 passes too.
Expect221Or250(code) == IF code = 221 \/ code = 250 THEN "Ok" ELSE "Protocol"
Expect221(code) == IF code = 221 THEN "Ok" ELSE "Protocol"

\* reply_auth_result, as a plausible slip would make it: 250 passes as well.
AuthResult235Or250(code) ==
    IF code = 235 \/ code = 250 THEN "Ok"
    ELSE IF code = 535 \/ code = 550 THEN "InvalidCred"
    ELSE "Protocol"

\* reply_auth_result
AuthResult(code) ==
    IF code = 235 THEN "Ok"
    ELSE IF code = 535 \/ code = 550 THEN "InvalidCred"
    ELSE "Protocol"

\* reply_mail_from
MailFromReply(code) ==
    IF code = 250 THEN "Ok"
    ELSE IF code = 550 THEN "Policy"
    ELSE IF code = 553 THEN "MailBoxName"
    ELSE "Protocol"

\* reply_mail_to, as a plausible slip would make it: 450 is not looked for.
RcptToReplyNo450(code) ==
    IF code = 250 \/ code = 251 THEN "Ok"
    ELSE IF code = 550 THEN "Policy"
    ELSE IF code = 553 THEN "MailBoxName"
    ELSE IF code = 551 THEN "Forward"
    ELSE "Protocol"

\* reply_mail_to
RcptToReply(code) ==
    IF code = 250 \/ code = 251 THEN "Ok"
    ELSE IF code = 550 \/ code = 450 THEN "Policy"
    ELSE IF code = 553 THEN "MailBoxName"
    ELSE IF code = 551 THEN "Forward"
    ELSE "Protocol"

\* reply_mail_payload
PayloadReply(code) ==
    IF code = 250 THEN "Ok"
    ELSE IF code = 550 \/ code = 450 THEN "Policy"
    ELSE "Protocol"

(***************************************************************************)
(* try_connect                                                             *)
(***************************************************************************)
\* address_resolve(): no address is DNS.
Resolve ==
    /\ pc = "resolve"
    /\ \E ok \in BOOLEAN :
          IF ok THEN Goto("dial") ELSE AttemptFails("DNS", "DNS")
    /\ io' = NoIo
    /\ UNCHANGED <<sock, tlscon, meta, upgraded, closed421, termBy, callVars>>

\* TcpStream::connect_timeout, self.stream = client, set_time_out.  The new
\* socket replaces the old one; self.tlscon is not touched.
Dial ==
    /\ pc = "dial"
    /\ io' = NoIo
    /\ \E o \in {"ok", "refused", "timeouts"} :
          IF o = "refused"
          THEN /\ AttemptFails("ServerUnreachable", "ServerUnreachable")
               /\ UNCHANGED <<sock, tlscon, upgraded, termBy>>
          ELSE /\ sock' = "open"
               /\ termBy' = "-"
               /\ tlscon' = IF tlscon = "live" THEN "stale" ELSE tlscon
               /\ upgraded' = FALSE
               /\ IF o = "ok" THEN Goto("greet") ELSE AttemptFails("Network", "Network")
    /\ UNCHANGED <<meta, closed421, callVars>>

\* init_connection after the dial: every error of recv_line becomes
\* InvalidServer, a line not coded 220 is Protocol.
GreetingErr(ret, code) ==
    IF ret # "Ok" THEN "InvalidServer" ELSE IF code # 220 THEN "Protocol" ELSE "Ok"

Greet ==
    /\ pc = "greet"
    /\ \E r \in ReadsOn(LineReplies) :
          LET got == RecvLine(Sess, r)
              e == GreetingErr(got.ret, IF r.kind = "lines" THEN r.lines[1].code ELSE 0)
          IN  /\ io' = IoRead("greeting", r)
              /\ termBy' = TermAfter("greeting", got, r)
              /\ SetSess(got.s)
              /\ closed421' = (closed421 \/ (r.kind = "lines" /\ r.lines[1].code = 421))
              /\ IF e = "Ok"
                 THEN Goto("ehlo1_send")
                 ELSE AttemptFails(e, IF got.ret # "Ok" THEN got.ret ELSE e)
    /\ UNCHANGED <<upgraded, callVars>>

\* The choice of the mechanism, as a plausible slip would make it: LOGIN is
\* asked first.
AuthPcLoginFirst(m) ==
    IF m.auth_login = "Supported" THEN "login_send"
    ELSE IF m.auth_plain = "Supported" THEN "plain_send"
    ELSE "done"

\* try_connect after the EHLO exchanges: PLAIN if supported, else LOGIN if
\* supported, else the attempt is over.
AuthPc(m) ==
    IF m.auth_plain = "Supported" THEN "plain_send"
    ELSE IF m.auth_login = "Supported" THEN "login_send"
    ELSE "done"

\* try_connect after start_tls, as a plausible slip would make it: no second
\* handshake.
AfterStartTlsNoEhlo == AuthPc(meta)

\* try_connect after start_tls: the second handshake.
AfterStartTls == "ehlo2_send"

\* try_connect after handshake number p, as a plausible slip would make it:
\* the upgrade is never asked for.
AfterEhloNoTls(p, m) == AuthPc(m)

\* try_connect after handshake number p.
AfterEhlo(p, m) ==
    IF p = 1 /\ m.tls = "Supported" THEN "starttls_send" ELSE AuthPc(m)

\* handshake(): send EHLO.
EhloSend(p) ==
    /\ pc = IF p = 1 THEN "ehlo1_send" ELSE "ehlo2_send"
    /\ Write("EHLO", IF p = 1 THEN "ehlo1_recv" ELSE "ehlo2_recv")

\* handshake(): read the reply and set the capabilities.
EhloRecv(p) ==
    /\ pc = IF p = 1 THEN "ehlo1_recv" ELSE "ehlo2_recv"
    /\ \E r \in ReadsOn(EhloReplies) :
          LET got == RecvReply(Sess, r)
              hs == Handshake(meta, IsTls(tlscon), r.lines)
          IN  /\ io' = IoRead("EHLO", r)
              /\ termBy' = TermAfter("EHLO", got, r)
              /\ closed421' =
                    (closed421 \/ (r.kind = "lines" /\ \E i \in DOMAIN r.lines : r.lines[i].code = 421))
              /\ IF got.ret # "Ok"
                 THEN SetSess(got.s) /\ AttemptFails(got.ret, got.ret)
                 ELSE /\ meta' = hs.meta
                      /\ UNCHANGED <<sock, tlscon>>
                      /\ IF hs.ret # "Ok"
                         THEN AttemptFails(hs.ret, hs.ret)
                         ELSE GotoOrDone(AfterEhlo(p, hs.meta))
    /\ UNCHANGED <<upgraded, callVars>>

\* start_tls(): send STARTTLS.
StartTlsSend == pc = "starttls_send" /\ Write("STARTTLS", "starttls_recv")

\* start_tls(): expect 220, then attach a new TLS session to the socket.
StartTlsRecv ==
    /\ pc = "starttls_recv"
    /\ \E r \in ReadsOn(LineReplies) :
          LET got == RecvLine(Sess, r)
              e == IF got.ret # "Ok" THEN got.ret ELSE Expect220(r.lines[1].code)
          IN  /\ io' = IoRead("STARTTLS", r)
              /\ termBy' = TermAfter("STARTTLS", got, r)
              /\ closed421' = (closed421 \/ (r.kind = "lines" /\ r.lines[1].code = 421))
              /\ IF e = "Ok"
                 THEN /\ tlscon' = "live"
                      /\ upgraded' = TRUE
                      /\ UNCHANGED <<sock, meta>>
                      /\ GotoOrDone(AfterStartTls)
                 ELSE /\ SetSess(got.s)
                      /\ AttemptFails(e, e)
                      /\ UNCHANGED upgraded
    /\ UNCHANGED callVars

\* auth_plain()
PlainSend == pc = "plain_send" /\ Write("AUTH PLAIN", "plain_recv")
PlainRecv == pc = "plain_recv" /\ ExpectLine("AUTH PLAIN", [c \in Codes |-> AuthResult(c)], "done")

\* auth_login()
LoginSend == pc = "login_send" /\ Write("AUTH LOGIN", "login_chal1")
LoginChal1 == pc = "login_chal1" /\ ExpectLine("AUTH LOGIN", [c \in Codes |-> Expect334(c)], "login_user")
LoginUser == pc = "login_user" /\ Write("username", "login_end1")
LoginEnd1 == pc = "login_end1" /\ Write("CRLF", "login_chal2")
LoginChal2 == pc = "login_chal2" /\ ExpectLine("username", [c \in Codes |-> Expect334(c)], "login_pass")
LoginPass == pc = "login_pass" /\ Write("password", "login_end2")
LoginEnd2 == pc = "login_end2" /\ Write("CRLF", "login_result")
LoginResult == pc = "login_result" /\ ExpectLine("password", [c \in Codes |-> AuthResult(c)], "done")

(***************************************************************************)
(* try_send_mail                                                           *)
(***************************************************************************)
\* Addresses the caller may put in a mail.
FromAddrs == {"a@x.io", "A@x.io"}
ToAddrs == {"b@y.io", "b@y"}

\* check_address(): the pattern wants lower-case letters, digits, '_', '+'
\* and inner dots before the '@', and a domain ending in a dot and 2 to 6
\* lower-case letters.
CheckAddress(a) == a \in {"a@x.io", "b@y.io"}

\* The mails the caller may send.
Mails == [from : FromAddrs, to : ToAddrs, attachments : BOOLEAN]

\* The mode try_send_mail takes: pipelined exactly if the server's
\* pipelining capability is Supported.  The configuration is not read.
Pipelined(c, m) == m.pipelining = "Supported"

\* The checks, as a plausible slip would make them: the attachments are not
\* looked at.
PreCheckNoMime(m, mt) ==
    IF ~CheckAddress(m.from) THEN [err |-> "MailBoxName", arg |-> m.from]
    ELSE IF ~CheckAddress(m.to) THEN [err |-> "MailBoxName", arg |-> m.to]
    ELSE [err |-> "Ok", arg |-> "-"]

\* The checks try_send_mail makes before anything is written: the from
\* address, the to address, then attachments against 8bitmime.
PreCheck(m, mt) ==
    IF ~CheckAddress(m.from) THEN [err |-> "MailBoxName", arg |-> m.from]
    ELSE IF ~CheckAddress(m.to) THEN [err |-> "MailBoxName", arg |-> m.to]
    ELSE IF m.attachments /\ mt.eight_bit_mime # "Supported"
         THEN [err |-> "MIMENotSupported", arg |-> "-"]
         ELSE [err |-> "Ok", arg |-> "-"]

\* The checks, and the choice of the mode.
MailCheck ==
    /\ pc = "m_check"
    /\ io' = NoIo
    /\ LET chk == PreCheck(mail, meta) IN
       IF chk.err # "Ok"
       THEN AttemptFailsWith(chk.err, chk.err, chk.arg)
       ELSE Goto(IF Pipelined(cfg, meta) THEN "mp_from_w" ELSE "ms_from_w")
    /\ UNCHANGED <<sock, tlscon, meta, upgraded, closed421, termBy, callVars>>

\* The order of the steps, as a plausible slip would make it: the pipelined
\* mode reads each reply right after its command.
MailNextInterleaved(p) ==
    CASE p = "ms_from_w" -> "ms_from_r"
      [] p = "ms_from_r" -> "ms_to_w"
      [] p = "ms_to_w" -> "ms_to_r"
      [] p = "ms_to_r" -> "ms_data_w"
      [] p = "ms_data_w" -> "ms_data_r"
      [] p = "ms_data_r" -> "m_payload"
      [] p = "mp_from_w" -> "mp_from_r"
      [] p = "mp_from_r" -> "mp_to_w"
      [] p = "mp_to_w" -> "mp_to_r"
      [] p = "mp_to_r" -> "mp_data_w"
      [] p = "mp_data_w" -> "mp_data_r"
      [] p = "mp_data_r" -> "m_payload"

\* The order of the steps in the two modes.
MailNext(p) ==
    CASE p = "ms_from_w" -> "ms_from_r"
      [] p = "ms_from_r" -> "ms_to_w"
      [] p = "ms_to_w" -> "ms_to_r"
      [] p = "ms_to_r" -> "ms_data_w"
      [] p = "ms_data_w" -> "ms_data_r"
      [] p = "ms_data_r" -> "m_payload"
      [] p = "mp_from_w" -> "mp_to_w"
      [] p = "mp_to_w" -> "mp_data_w"
      [] p = "mp_data_w" -> "mp_from_r"
      [] p = "mp_from_r" -> "mp_to_r"
      [] p = "mp_to_r" -> "mp_data_r"
      [] p = "mp_data_r" -> "m_payload"

CommandMailFrom == pc \in {"ms_from_w", "mp_from_w"} /\ Write("MAIL FROM", MailNext(pc))
ReplyMailFrom ==
    pc \in {"ms_from_r", "mp_from_r"} /\ ExpectLine("MAIL FROM", [c \in Codes |-> MailFromReply(c)], MailNext(pc))
CommandMailTo == pc \in {"ms_to_w", "mp_to_w"} /\ Write("RCPT TO", MailNext(pc))
ReplyMailTo ==
    pc \in {"ms_to_r", "mp_to_r"} /\ ExpectLine("RCPT TO", [c \in Codes |-> RcptToReply(c)], MailNext(pc))
CommandMailData == pc \in {"ms_data_w", "mp_data_w"} /\ Write("DATA", MailNext(pc))
ReplyMailData ==
    pc \in {"ms_data_r", "mp_data_r"} /\ ExpectLine("DATA", [c \in Codes |-> Expect354(c)], MailNext(pc))

\* command_mail_payload with 8bitmime Supported: the serializer's bytes in
\* one write; an attachment that cannot be read is File.
PayloadMime ==
    /\ pc = "m_payload"
    /\ meta.eight_bit_mime = "Supported"
    /\ \/ Write("payload", "m_term")
       \/ /\ mail.attachments
          /\ io' = NoIo
          /\ AttemptFails("File", "File")
          /\ UNCHANGED <<sock, tlscon, meta, upgraded, closed421, termBy, callVars>>

\* command_mail_payload otherwise: From, To, Subject, blank line, text.
PayloadFrom ==
    pc = "m_payload" /\ meta.eight_bit_mime # "Supported" /\ Write("payload", "m_hdr_to")
PayloadTo == pc = "m_hdr_to" /\ Write("payload", "m_hdr_subject")
PayloadSubject == pc = "m_hdr_subject" /\ Write("payload", "m_blank")
PayloadBlank == pc = "m_blank" /\ Write("payload", "m_text")
PayloadText == pc = "m_text" /\ Write("payload", "m_term")

\* The terminator, CRLF . CRLF.
PayloadEnd == pc = "m_term" /\ Write("terminator", "m_final")

ReplyMailPayload == pc = "m_final" /\ ExpectLine("terminator", [c \in Codes |-> PayloadReply(c)], "done")

(***************************************************************************)
(* try_close                                                               *)
(***************************************************************************)
QuitSend == pc = "q_send" /\ Write("QUIT", "q_recv")

\* Expect 221, then terminate().
QuitRecv ==
    /\ pc = "q_recv"
    /\ \E r \in ReadsOn(LineReplies) :
          LET got == RecvLine(Sess, r)
              e == IF got.ret # "Ok" THEN got.ret ELSE Expect221(r.lines[1].code)
          IN  /\ io' = IoRead("QUIT", r)
              /\ termBy' = IF e = "Ok" THEN "quit" ELSE TermAfter("QUIT", got, r)
              /\ closed421' = (closed421 \/ (r.kind = "lines" /\ r.lines[1].code = 421))
              /\ IF e = "Ok"
                 THEN SetSess(Terminate(Sess)) /\ AttemptOk
                 ELSE SetSess(got.s) /\ AttemptFails(e, e)
    /\ UNCHANGED <<upgraded, callVars>>

(***************************************************************************)
(* The caller.                                                             *)
(***************************************************************************)
\* The operation's result reaches the caller; the close made by drop ends
\* the session.  What the model recorded about the operation is forgotten.
Return ==
    /\ pc = "returned"
    /\ pc' = IF op = "drop" THEN "dropped" ELSE "idle"
    /\ op' = "-"
    /\ result' = "-"
    /\ nfail' = 0
    /\ late421' = FALSE
    /\ lateTerm' = "-"
    /\ io' = NoIo
    /\ fail' = NoFail
    /\ sent' = 0
    /\ UNCHANGED <<cfg, sock, tlscon, meta, retries, handed, mail, upgraded, closed421,
                   termBy, pool, body, parser, ehlo, pureVars>>

\* connect, send_mail, close: the budget is read from the configuration.
Call(o, m) ==
    /\ pc = "idle"
    /\ op' = o
    /\ mail' = m
    /\ pc' = StartPc(o)
    /\ retries' = cfg.retries
    /\ result' = "pending"
    /\ nfail' = 0
    /\ fail' = NoFail
    /\ late421' = closed421
    /\ lateTerm' = termBy
    /\ io' = NoIo
    /\ sent' = 0
    /\ UNCHANGED <<cfg, sock, tlscon, meta, handed, upgraded, closed421, termBy, pool, body,
                   parser, ehlo, pureVars>>

CallConnect == handed /\ Call("connect", NoMail)
CallSendMail == handed /\ \E m \in Mails : Call("send_mail", m)
CallClose == handed /\ Call("close", NoMail)

\* Drop for MailerConnection with auto_quit: close(), its result ignored.
DropQuit == cfg.auto_quit /\ Call("drop", NoMail)

\* Drop for MailerConnection without auto_quit.
DropSilent ==
    /\ pc = "idle"
    /\ ~cfg.auto_quit
    /\ pc' = "dropped"
    /\ UNCHANGED <<cfg, sock, tlscon, meta, op, retries, result, handed, mail, io, fail,
                   upgraded, closed421, late421, nfail, termBy, lateTerm, sent, pool,
                   body, parser, ehlo, pureVars>>

\* No pool is running; no body is on its way; no parser is reading; no
\* EHLO reply is looked at on its own.
NoPool == [at |-> "-"]
NoBody == [at |-> "-"]
NoParser == [at |-> "-"]
NoEhlo == [at |-> "-"]
NoCodec == [at |-> "-"]
NoLogger == [at |-> "-"]
NoAddr == [at |-> "-"]
PureIdle == codec = NoCodec /\ logger = NoLogger /\ addr = NoAddr

\* The settings of the configuration's pipeline knob.
PipelineSettings == BOOLEAN

\* Configurations.
Configs == [retries : 0..MaxRetries, auto_quit : BOOLEAN, pipeline : PipelineSettings]

\* MailerConnection::new on a socket the mailer dialled, and the mailer's
\* first call, connect.
SessInit(c) ==
    /\ cfg = c
    /\ sock = "open"
    /\ tlscon = "none"
    /\ meta = MetaNew
    /\ op = "connect"
    /\ pc = "resolve"
    /\ retries = cfg.retries
    /\ result = "pending"
    /\ handed = FALSE
    /\ mail = NoMail
    /\ io = NoIo
    /\ upgraded = FALSE
    /\ closed421 = FALSE
    /\ late421 = FALSE
    /\ nfail = 0
    /\ fail = NoFail
    /\ termBy = "-"
    /\ lateTerm = "-"
    /\ sent = 0

\* One session, no pool, no body under way.
InitWith(c) ==
    SessInit(c) /\ pool = NoPool /\ body = NoBody /\ parser = NoParser /\ ehlo = NoEhlo /\ PureIdle

Next ==
    \/ Resolve
    \/ Dial
    \/ Greet
    \/ \E p \in {1, 2} : EhloSend(p)
    \/ \E p \in {1, 2} : EhloRecv(p)
    \/ StartTlsSend
    \/ StartTlsRecv
    \/ PlainSend
    \/ PlainRecv
    \/ LoginSend
    \/ LoginChal1
    \/ LoginUser
    \/ LoginEnd1
    \/ LoginChal2
    \/ LoginPass
    \/ LoginEnd2
    \/ LoginResult
    \/ MailCheck
    \/ CommandMailFrom
    \/ ReplyMailFrom
    \/ CommandMailTo
    \/ ReplyMailTo
    \/ CommandMailData
    \/ ReplyMailData
    \/ PayloadMime
    \/ PayloadFrom
    \/ PayloadTo
    \/ PayloadSubject
    \/ PayloadBlank
    \/ PayloadText
    \/ PayloadEnd
    \/ ReplyMailPayload
    \/ QuitSend
    \/ QuitRecv
    \/ Return
    \/ CallConnect
    \/ CallSendMail
    \/ CallClose
    \/ DropQuit
    \/ DropSilent

\* The session under every retry budget and both settings of auto_quit,
\* with the pipeline setting at its default.
Init == \E c \in Configs : c.pipeline /\ InitWith(c)

Spec == Init /\ [][Next]_vars

\* The session under both settings of pipeline, without retries.
InitPipe == \E c \in Configs : c.retries = 0 /\ InitWith(c)

SpecPipe == InitPipe /\ [][Next]_vars

(***************************************************************************)
(* The mail body on the wire: Mail::final_text and the writes that         *)
(* command_mail_payload makes after the headers when 8bitmime is not       *)
(* Supported.  A body is a sequence of tokens: "a" for a character other   *)
(* than '.', CR and LF, "." for a dot, "CRLF" for the pair CR LF.           *)
(***************************************************************************)
Tokens == {"a", ".", "CRLF"}

\* The bodies explored: at most MaxText tokens.
Texts == {<<>>} \cup SeqUpTo(Tokens, MaxText)

\* str::replace(".\r\n", "..\r\n") from position i on: every dot that a CRLF
\* follows is doubled, everything else is copied.
RECURSIVE ReplaceFrom(_, _)
ReplaceFrom(t, i) ==
    IF i > Len(t) THEN <<>>
    ELSE IF t[i] = "." /\ i < Len(t) /\ t[i + 1] = "CRLF"
         THEN <<".", ".", "CRLF">> \o ReplaceFrom(t, i + 2)
         ELSE <<t[i]>> \o ReplaceFrom(t, i + 1)

\* Mail::final_text()
FinalText(t) == ReplaceFrom(t, 1)

\* Dot-stuffing as the transaction rules ask for it, from position i on: a
\* dot that begins a line is doubled, everything else is copied.
RECURSIVE DotStuffFrom(_, _)
DotStuffFrom(t, i) ==
    IF i > Len(t) THEN <<>>
    ELSE IF t[i] = "." /\ (i = 1 \/ t[i - 1] = "CRLF")
         THEN <<".", ".">> \o DotStuffFrom(t, i + 1)
         ELSE <<t[i]>> \o DotStuffFrom(t, i + 1)

DotStuff(t) == DotStuffFrom(t, 1)

\* command_mail_payload is about to write the body: the headers and the
\* blank line that ends them are on the wire.
InitText ==
    /\ SessInit([retries |-> 0, auto_quit |-> FALSE, pipeline |-> TRUE])
    /\ pool = NoPool /\ parser = NoParser /\ ehlo = NoEhlo /\ PureIdle
    /\ \E t \in Texts : body = [at |-> "text", text |-> t, wire |-> <<"CRLF">>]

\* self.write(mail.final_text().as_bytes())
WriteFinalText ==
    /\ body.at = "text"
    /\ body' = [body EXCEPT !.at = "term", !.wire = @ \o FinalText(body.text)]
    /\ UNCHANGED <<sessVars, pool, parser, ehlo, pureVars>>

\* self.write("\r\n.\r\n".as_bytes())
WriteTerminator ==
    /\ body.at = "term"
    /\ body' = [body EXCEPT !.at = "sent", !.wire = @ \o <<"CRLF", ".", "CRLF">>]
    /\ UNCHANGED <<sessVars, pool, parser, ehlo, pureVars>>

NextText == WriteFinalText \/ WriteTerminator

SpecText == InitText /\ [][NextText]_vars

(***************************************************************************)
(* The submission pool (spec.md 4.6 and 5).  No pool code is in the        *)
(* sources; the steps below follow the specification's description.  A     *)
(* mail is named by its original index in the batch, 0 .. n-1.  Each       *)
(* session operation of a worker is one step with a chosen outcome.        *)
(***************************************************************************)
Min(a, b) == IF a <= b THEN a ELSE b

\* The queue starts as the batch, in batch order.
BatchQueueReversed(n) == [i \in 1..n |-> n - i]

BatchQueue(n) == [i \in 1..n |-> i - 1]

\* The pool spawns min(max_workers, |mails|) workers.
WorkerCount(max_workers, n) == Min(max_workers, n)

\* "pop one element": the queue is FIFO or LIFO, the order is unspecified.
PoppedHead(q, fifo) == Head(q)

PoppedMail(q, fifo) == IF fifo THEN Head(q) ELSE q[Len(q)]

QueueAfterPop(q, fifo) == IF fifo THEN Tail(q) ELSE SubSeq(q, 1, Len(q) - 1)

\* "note its current length (the index)": read after the pop, under the lock.
NotedIndex(q) == Len(q)

\* The pool's overall result, from the workers that have all joined.
OverallAnyFailed(ws) ==
    IF \E w \in DOMAIN ws : ws[w].pc = "failed" THEN "ServerUnreachable" ELSE "Ok"

Overall(ws) ==
    IF \A w \in DOMAIN ws : ws[w].pc = "failed" THEN "ServerUnreachable" ELSE "Ok"

NewWorker == [pc |-> "start", mail |-> -1, idx |-> -1, out |-> "-"]

\* The pool is handed a batch of n mails and max_workers.  mock: every session
\* operation succeeds.  popped, noted and wrote record what the workers did:
\* how often each mail was popped, how often each index was noted, and the
\* mails whose outcome was written to each slot; sent is the outcome of each
\* mail's send_mail.
InitPool ==
    /\ SessInit([retries |-> 0, auto_quit |-> FALSE, pipeline |-> TRUE])
    /\ body = NoBody /\ parser = NoParser /\ ehlo = NoEhlo /\ PureIdle
    /\ \E n \in 1..MaxMails, k \in 1..MaxWorkers, f \in BOOLEAN, mk \in BOOLEAN :
          pool = [at |-> "run", n |-> n, max_workers |-> k, fifo |-> f, mock |-> mk,
                  queue |-> BatchQueue(n),
                  results |-> [i \in 0..(n - 1) |-> "Ok"],
                  ws |-> [w \in 1..WorkerCount(k, n) |-> NewWorker],
                  popped |-> [i \in 0..(n - 1) |-> 0],
                  noted |-> [i \in 0..(n - 1) |-> 0],
                  sent |-> [i \in 0..(n - 1) |-> <<>>],
                  wrote |-> [i \in 0..(n - 1) |-> {}],
                  overall |-> "-"]

Workers == IF pool.at = "-" THEN {} ELSE DOMAIN pool.ws

PoolStep(p) == pool' = p /\ UNCHANGED <<sessVars, body, parser, ehlo, pureVars>>

\* 1. Opens its own session; on connect failure the worker returns.
WorkerConnect(w) ==
    /\ pool.at = "run" /\ pool.ws[w].pc = "start"
    /\ \E ok \in IF pool.mock THEN {TRUE} ELSE BOOLEAN :
          PoolStep([pool EXCEPT !.ws[w].pc = IF ok THEN "loop" ELSE "failed"])

\* 2. Lock the queue, pop one mail, note the queue's length, unlock.
WorkerPop(w) ==
    /\ pool.at = "run" /\ pool.ws[w].pc = "loop" /\ pool.queue # <<>>
    /\ LET m == PoppedMail(pool.queue, pool.fifo)
           q == QueueAfterPop(pool.queue, pool.fifo)
           i == NotedIndex(q)
       IN PoolStep([pool EXCEPT !.queue = q,
                                !.ws[w] = [pc |-> "send", mail |-> m, idx |-> i, out |-> "-"],
                                !.popped[m] = @ + 1,
                                !.noted[i] = @ + 1])

\* 2. The queue is empty: exit the loop.
WorkerExit(w) ==
    /\ pool.at = "run" /\ pool.ws[w].pc = "loop" /\ pool.queue = <<>>
    /\ PoolStep([pool EXCEPT !.ws[w].pc = "close"])

\* 3. Calls send_mail.
WorkerSend(w) ==
    /\ pool.at = "run" /\ pool.ws[w].pc = "send"
    /\ \E o \in IF pool.mock THEN {"Ok"} ELSE {"Ok", "Failed"} :
          PoolStep([pool EXCEPT !.ws[w].pc = "write", !.ws[w].out = o,
                                !.sent[pool.ws[w].mail] = Append(@, o)])

\* 3. Writes the outcome into the result slot at the noted index.
WorkerWrite(w) ==
    /\ pool.at = "run" /\ pool.ws[w].pc = "write"
    /\ PoolStep([pool EXCEPT !.results[pool.ws[w].idx] = pool.ws[w].out,
                             !.wrote[pool.ws[w].idx] = @ \cup {pool.ws[w].mail},
                             !.ws[w] = [pc |-> "loop", mail |-> -1, idx |-> -1, out |-> "-"]])

\* 4. On exit, calls close; its outcome is only reported as an event.
WorkerClose(w) ==
    /\ pool.at = "run" /\ pool.ws[w].pc = "close"
    /\ \E o \in IF pool.mock THEN {"Disconnected"} ELSE {"Disconnected", "FailToDisconnect"} :
          PoolStep([pool EXCEPT !.ws[w].pc = "done", !.ws[w].out = o])

\* The pool returns once all workers have joined.
PoolReturn ==
    /\ pool.at = "run"
    /\ \A w \in Workers : pool.ws[w].pc \in {"done", "failed"}
    /\ PoolStep([pool EXCEPT !.at = "returned", !.overall = Overall(pool.ws)])

NextPool ==
    \/ \E w \in Workers : WorkerConnect(w)
    \/ \E w \in Workers : WorkerPop(w)
    \/ \E w \in Workers : WorkerExit(w)
    \/ \E w \in Workers : WorkerSend(w)
    \/ \E w \in Workers : WorkerWrite(w)
    \/ \E w \in Workers : WorkerClose(w)
    \/ PoolReturn

SpecPool == InitPool /\ [][NextPool]_vars

(***************************************************************************)
(* The reply parser (src/src/connection/parser.rs) on a byte stream.  A     *)
(* byte is one of the digits, "x" for a byte of text, " ", "-", "CR", "LF"; *)
(* "NUL" is the placeholder a new Parser holds as its lookahead.  Each call *)
(* of recv_char is one step.  A read past the end of the stream times out,  *)
(* or, when the peer has closed the connection, returns zero bytes.         *)
(***************************************************************************)
Digit == [c \in {"0", "2", "5"} |-> CASE c = "0" -> 0 [] c = "2" -> 2 [] c = "5" -> 5]

\* protocol::status_code: the codes of enum StatusCode.
StatusCodes ==
    {211, 214, 220, 221, 235, 250, 251, 252, 334, 354, 421, 432, 450, 451, 452, 454, 455,
     500, 501, 502, 503, 504, 530, 534, 535, 538, 550, 551, 552, 553, 554, 555}

\* The lines a server may put on the stream: the code, what follows it, the
\* text and the line's end.  The first five are well formed.
WireLines ==
    { <<"2", "5", "0", " ", "CR", "LF">>,
      <<"2", "5", "0", " ", "x", "CR", "LF">>,
      <<"2", "5", "0", "-", "CR", "LF">>,
      <<"2", "5", "0", "-", "x", "CR", "LF">>,
      <<"2", "5", "0", "CR", "LF">>,
      <<"2", "5", "0", " ", "CR", "x", "CR", "LF">>,
      <<"2", "0", "0", " ", "x", "CR", "LF">>,
      <<"2", "x", "0", " ", "CR", "LF">>,
      <<"2", "5", "0", "x", "CR", "LF">>,
      <<"2", "5", "0", "CR", "x", "LF">> }

RECURSIVE Concat(_)
Concat(ls) == IF ls = <<>> THEN <<>> ELSE Head(ls) \o Concat(Tail(ls))

\* What a server may send: at most MaxWireLines lines, one after the other.
Wires == { Concat(ls) : ls \in SeqUpTo(WireLines, MaxWireLines) }

\* The byte streams: what the server sent of ws until it fell silent or closed
\* the connection, at the end of a line or inside one.
Streams(ws) == UNION { { SubSeq(w, 1, n) : n \in 0..Len(w) } : w \in ws }

\* Parser::new: nothing is read, the lookahead is the placeholder.
ParserNew(kind, w, at, eof) ==
    [at |-> "run", kind |-> kind, wire |-> w, eof |-> eof, over |-> FALSE,
     start |-> at, pos |-> at,
     next_char |-> "NUL", pc |-> "prime", digits |-> <<>>, sep |-> "NUL", text |-> <<>>,
     lines |-> <<>>, inner |-> FALSE, first |-> <<>>, line |-> <<>>, ret |-> "-"]

\* stream.read(&mut buf) has a byte to deliver.
CanRead(p) == p.pos < Len(p.wire)

\* stream.read(&mut buf) returns Err: the peer is silent and the read times
\* out.  At end-of-stream the read returns Ok(0) instead.
ReadFails(p) == ~CanRead(p) /\ ~p.eof

\* recv_char after a read that returned Ok: buf[0] is the lookahead, the byte
\* delivered or, after a read of zero bytes, the 0 that buf was made with.
RecvChar(p) ==
    IF CanRead(p)
    THEN [p EXCEPT !.pos = @ + 1, !.next_char = p.wire[p.pos + 1]]
    ELSE [p EXCEPT !.next_char = "NUL"]

\* text.push(c).  Of a text longer than MaxTextKept the model keeps the first
\* bytes and, in `over`, the parity of the pushes beyond them.
TextPush(p, c) ==
    IF Len(p.text) < MaxTextKept
    THEN [p EXCEPT !.text = Append(@, c)]
    ELSE [p EXCEPT !.over = ~@]

\* The read returns Err(e).
ParserErr(p, e) == [p EXCEPT !.at = "done", !.ret = e]

\* Line::new(.., next == ' '): whether the line is the reply's last.
LineLast(next) == next = " "

\* recv_reply's loop test, as a plausible slip would make it: one line is
\* enough.
ReplyDoneAlways(lines) == TRUE

\* recv_reply's loop test: the line pushed last is a last line.
ReplyDone(lines) == lines[Len(lines)].last

ParserStep(p) == parser' = p /\ UNCHANGED <<sessVars, pool, body, ehlo, pureVars>>

\* A stream is there to read from.
InitParser ==
    /\ SessInit([retries |-> 0, auto_quit |-> FALSE, pipeline |-> TRUE])
    /\ pool = NoPool /\ body = NoBody /\ ehlo = NoEhlo /\ PureIdle
    /\ \E w \in Streams(Wires), eof \in BOOLEAN :
          parser = [at |-> "wire", wire |-> w, eof |-> eof, pos |-> 0, ret |-> "Ok"]

\* stream_recv_line or stream_recv_reply makes a Parser on the stream, at the
\* start or after a read that returned Ok.
StreamRecv ==
    /\ parser.at \in {"wire", "done"} /\ parser.ret = "Ok"
    /\ \E kind \in {"line", "reply"} :
          ParserStep(ParserNew(kind, parser.wire, parser.pos, parser.eof))

\* recv_line: self.recv_char()?, its byte discarded.
LinePrime ==
    /\ parser.at = "run" /\ parser.pc = "prime"
    /\ ParserStep(IF ReadFails(parser) THEN ParserErr(parser, "Network")
                  ELSE [RecvChar(parser) EXCEPT !.pc = "d1", !.digits = <<>>, !.text = <<>>])

\* recv_digit, three times.
RecvDigit ==
    /\ parser.at = "run" /\ parser.pc \in {"d1", "d2", "d3"}
    /\ LET c == parser.next_char IN
       ParserStep(IF ReadFails(parser) THEN ParserErr(parser, "Network")
                  ELSE IF c \notin DOMAIN Digit THEN ParserErr(RecvChar(parser), "Protocol")
                  ELSE [RecvChar(parser) EXCEPT
                          !.digits = Append(@, Digit[c]),
                          !.pc = CASE parser.pc = "d1" -> "d2"
                                   [] parser.pc = "d2" -> "d3"
                                   [] OTHER -> "sep"])

\* let next = self.peek_char(): a space or a hyphen is consumed and the text
\* follows, anything else is left to expect_end.
LineSep ==
    /\ parser.at = "run" /\ parser.pc = "sep"
    /\ LET next == parser.next_char IN
       ParserStep(IF next \in {" ", "-"}
                  THEN IF ReadFails(parser) THEN ParserErr(parser, "Network")
                       ELSE [RecvChar(parser) EXCEPT !.sep = next, !.pc = "text"]
                  ELSE [parser EXCEPT !.sep = next, !.pc = "end"])

\* recv_text: one turn of the loop.
RecvText ==
    /\ parser.at = "run" /\ parser.pc = "text"
    /\ LET c == parser.next_char IN
       ParserStep(IF ReadFails(parser) THEN ParserErr(parser, "Network")
                  ELSE LET q == RecvChar(parser) IN
                       IF c = "CR" /\ q.next_char = "LF"
                       THEN [q EXCEPT !.pc = "line"]
                       ELSE TextPush(q, c))

\* expect_end: expect_char('\r'), then the lookahead must be '\n'.
ExpectEnd ==
    /\ parser.at = "run" /\ parser.pc = "end"
    /\ LET c == parser.next_char IN
       ParserStep(IF ReadFails(parser) THEN ParserErr(parser, "Network")
                  ELSE LET q == RecvChar(parser) IN
                       IF c # "CR" \/ q.next_char # "LF"
                       THEN ParserErr(q, "Protocol")
                       ELSE [q EXCEPT !.pc = "line"])

\* Line::new(status_code(code)?, text, next == ' '), and what the caller of
\* recv_line does with the line: recv_reply pushes it and loops until a last
\* line; stream_recv_line keeps the first line and, if it is not a last
\* line, calls recv_reply for the rest.
LineNew ==
    /\ parser.at = "run" /\ parser.pc = "line"
    /\ LET code == parser.digits[1] * 100 + parser.digits[2] * 10 + parser.digits[3]
           line == [code |-> code, text |-> parser.text, last |-> LineLast(parser.sep)]
           p == [parser EXCEPT !.line = <<line>>]
       IN ParserStep(
            IF code \notin StatusCodes THEN ParserErr(parser, "Protocol")
            ELSE IF p.kind = "reply" \/ p.inner
                 THEN LET ls == Append(p.lines, line) IN
                      IF ReplyDone(ls)
                      THEN [p EXCEPT !.lines = ls, !.at = "done", !.ret = "Ok"]
                      ELSE [p EXCEPT !.lines = ls, !.pc = "prime"]
                 ELSE IF line.last
                      THEN [p EXCEPT !.first = <<line>>, !.at = "done", !.ret = "Ok"]
                      ELSE [p EXCEPT !.first = <<line>>, !.inner = TRUE, !.pc = "prime"])

NextParser ==
    \/ StreamRecv
    \/ LinePrime
    \/ RecvDigit
    \/ LineSep
    \/ RecvText
    \/ ExpectEnd
    \/ LineNew

SpecParser == InitParser /\ [][NextParser]_vars

\* The parser is sequential code: it takes its next step whenever it has one.
SpecParserLive == SpecParser /\ WF_vars(NextParser)

\* The reply that begins at byte a + 1 of the stream, by the grammar of reply
\* lines: three digits of a known code, then a hyphen and text (more lines
\* follow), or a space and text, or nothing (the reply's last line), then
\* CR LF; the text holds no CR.  ok says that such a reply is there, end is
\* the position of its last LF.
RECURSIVE TextEnd(_, _)
TextEnd(w, i) ==
    IF i + 1 > Len(w) THEN 0
    ELSE IF w[i] = "CR" THEN (IF w[i + 1] = "LF" THEN i + 1 ELSE 0)
    ELSE TextEnd(w, i + 1)

RECURSIVE WellFormedReply(_, _)
WellFormedReply(w, a) ==
    IF a + 5 > Len(w) THEN [ok |-> FALSE, end |-> 0]
    ELSE IF ~(\A k \in 1..3 : w[a + k] \in DOMAIN Digit) THEN [ok |-> FALSE, end |-> 0]
    ELSE IF Digit[w[a + 1]] * 100 + Digit[w[a + 2]] * 10 + Digit[w[a + 3]] \notin StatusCodes
         THEN [ok |-> FALSE, end |-> 0]
    ELSE IF w[a + 4] = "CR"
         THEN [ok |-> w[a + 5] = "LF", end |-> a + 5]
    ELSE IF w[a + 4] \notin {" ", "-"} THEN [ok |-> FALSE, end |-> 0]
    ELSE LET e == TextEnd(w, a + 5) IN
         IF e = 0 THEN [ok |-> FALSE, end |-> 0]
         ELSE IF w[a + 4] = " " THEN [ok |-> TRUE, end |-> e]
         ELSE WellFormedReply(w, e)

(***************************************************************************)
(* handshake() on one EHLO reply: the capability set it leaves, for the    *)
(* capability sets of a new session and of a session that has seen every   *)
(* capability, with and without TLS.                                       *)
(***************************************************************************)
MetaAll == [c \in Caps |-> "Supported"]

InitEhlo ==
    /\ SessInit([retries |-> 0, auto_quit |-> FALSE, pipeline |-> TRUE])
    /\ pool = NoPool /\ body = NoBody /\ parser = NoParser /\ PureIdle
    /\ \E m \in {MetaNew, MetaAll}, t \in BOOLEAN, ls \in EhloReplies :
          ehlo = [at |-> "reply", meta |-> m, tls |-> t, lines |-> ls,
                  ret |-> "-", out |-> m]

\* handshake() once recv_reply has returned the lines.
ApplyHandshake ==
    /\ ehlo.at = "reply"
    /\ ~(\E i \in DOMAIN ehlo.lines : Fatal(ehlo.lines[i].code))
    /\ LET hs == Handshake(ehlo.meta, ehlo.tls, ehlo.lines) IN
       ehlo' = [ehlo EXCEPT !.at = "done", !.ret = hs.ret, !.out = hs.meta]
    /\ UNCHANGED <<sessVars, pool, body, parser, pureVars>>

NextEhlo == ApplyHandshake

SpecEhlo == InitEhlo /\ [][NextEhlo]_vars

(***************************************************************************)
(* The codec: get_auth_plain and get_auth_login (connection/protocol.rs).  *)
(* A string is a sequence of chars, each a code point; a str's bytes are   *)
(* its UTF-8 encoding.                                                     *)
(***************************************************************************)
\* Largest number of chars in a user name or a password.
MaxCred == 2

\* The chars explored: 'A', U+00E9 and U+0100.
CredChars == {65, 233, 256}
Creds == UNION { [1..n -> CredChars] : n \in 0..MaxCred }

\* The bytes of a char in a str (chars below U+0800).
Utf8Char(c) == IF c < 128 THEN <<c>> ELSE <<192 + (c \div 64), 128 + (c % 64)>>

\* str::as_bytes
RECURSIVE Utf8(_)
Utf8(str) == IF str = <<>> THEN <<>> ELSE Utf8Char(Head(str)) \o Utf8(Tail(str))

\* `c as u8`: the code point's low eight bits.
AsU8(c) == c % 256

\* The standard alphabet.
B64Alphabet ==
    << "A", "B", "C", "D", "E", "F", "G", "H", "I", "J", "K", "L", "M", "N", "O", "P",
       "Q", "R", "S", "T", "U", "V", "W", "X", "Y", "Z", "a", "b", "c", "d", "e", "f",
       "g", "h", "i", "j", "k", "l", "m", "n", "o", "p", "q", "r", "s", "t", "u", "v",
       "w", "x", "y", "z", "0", "1", "2", "3", "4", "5", "6", "7", "8", "9", "+", "/" >>

B64Index(ch) == CHOOSE v \in 0..63 : B64Alphabet[v + 1] = ch

\* general_purpose::STANDARD.encode: three bytes to four symbols, padded.
RECURSIVE B64Encode(_)
B64Encode(b) ==
    LET s(v) == B64Alphabet[v + 1] IN
    CASE Len(b) = 0 -> <<>>
      [] Len(b) = 1 -> << s(b[1] \div 4), s((b[1] % 4) * 16), "=", "=" >>
      [] Len(b) = 2 ->
            << s(b[1] \div 4), s((b[1] % 4) * 16 + (b[2] \div 16)),
               s((b[2] % 16) * 4), "=" >>
      [] OTHER ->
            << s(b[1] \div 4), s((b[1] % 4) * 16 + (b[2] \div 16)),
               s((b[2] % 16) * 4 + (b[3] \div 64)), s(b[3] % 64) >>
               \o B64Encode(SubSeq(b, 4, Len(b)))

\* The decoding of a padded token in the standard alphabet.
RECURSIVE B64Decode(_)
B64Decode(t) ==
    IF t = <<>> THEN <<>>
    ELSE LET v(i) == B64Index(t[i])
             b1 == v(1) * 4 + (v(2) \div 16)
             b2 == (v(2) % 16) * 16 + (v(3) \div 4)
             b3 == (v(3) % 4) * 64 + v(4)
         IN  IF t[3] = "=" THEN <<b1>>
             ELSE IF t[4] = "=" THEN <<b1, b2>>
             ELSE <<b1, b2, b3>> \o B64Decode(SubSeq(t, 5, Len(t)))

\* get_auth_plain: NUL, the user name's chars as u8, NUL, the password's.
get_auth_plain(username, password) ==
    B64Encode(<<0>> \o [i \in DOMAIN username |-> AsU8(username[i])]
              \o <<0>> \o [i \in DOMAIN password |-> AsU8(password[i])])

\* get_auth_login: the token's bytes.
get_auth_login(token) == B64Encode(Utf8(token))

InitCodec ==
    /\ SessInit([retries |-> 0, auto_quit |-> FALSE, pipeline |-> TRUE])
    /\ pool = NoPool /\ body = NoBody /\ parser = NoParser /\ ehlo = NoEhlo
    /\ logger = NoLogger /\ addr = NoAddr
    /\ \E u \in Creds, p \in Creds :
          codec = [at |-> "input", u |-> u, p |-> p, token |-> <<>>]

CodecStep(c) == codec' = c /\ UNCHANGED <<sessVars, pool, body, parser, ehlo, logger, addr>>

\* Command::AuthPlain(un, pw) rendered: the token after "AUTH PLAIN ".
GetAuthPlain ==
    /\ codec.at = "input"
    /\ CodecStep([codec EXCEPT !.at = "plain", !.token = get_auth_plain(codec.u, codec.p)])

\* auth_login's first token: get_auth_login of the user name.
GetAuthLogin ==
    /\ codec.at = "input"
    /\ CodecStep([codec EXCEPT !.at = "login", !.token = get_auth_login(codec.u)])

NextCodec == GetAuthPlain \/ GetAuthLogin

SpecCodec == InitCodec /\ [][NextCodec]_vars

(***************************************************************************)
(* The file sink: FileLogger (logger.rs).  The file is the sequence of     *)
(* what was written to it: markers and data bytes.  hist is the sequence   *)
(* of chunks the sink was handed, each with whether the sink was enabled   *)
(* (and had a file) when it came.                                          *)
(***************************************************************************)
\* Largest number of chunks handed to the sink.
MaxChunks == 4

Chunks == { <<>>, <<"x">>, <<"y", "x">> }

\* Logger::client
client(l, data) ==
    IF ~l.has_file THEN l
    ELSE IF ~l.enabled THEN l
    ELSE IF ~l.is_client
         THEN [l EXCEPT !.is_client = TRUE, !.is_server = FALSE,
                        !.file = (@ \o <<"C: ">>) \o data]
         ELSE [l EXCEPT !.file = @ \o data]

\* Logger::server, as a plausible slip would make it: is_client is left set.
serverKeepsClient(l, data) ==
    IF ~l.has_file THEN l
    ELSE IF ~l.enabled THEN l
    ELSE IF ~l.is_server
         THEN [l EXCEPT !.is_server = TRUE, !.file = (@ \o <<"S: ">>) \o data]
         ELSE [l EXCEPT !.file = @ \o data]

\* Logger::server
server(l, data) ==
    IF ~l.has_file THEN l
    ELSE IF ~l.enabled THEN l
    ELSE IF ~l.is_server
         THEN [l EXCEPT !.is_server = TRUE, !.is_client = FALSE,
                        !.file = (@ \o <<"S: ">>) \o data]
         ELSE [l EXCEPT !.file = @ \o data]

\* FileLogger::new(path): file(path) or none().
FileLoggerNew(path) ==
    [at |-> "run", enabled |-> path, has_file |-> path, is_client |-> FALSE,
     is_server |-> FALSE, file |-> <<>>, hist |-> <<>>]

InitLogger ==
    /\ SessInit([retries |-> 0, auto_quit |-> FALSE, pipeline |-> TRUE])
    /\ pool = NoPool /\ body = NoBody /\ parser = NoParser /\ ehlo = NoEhlo
    /\ codec = NoCodec /\ addr = NoAddr
    /\ \E path \in BOOLEAN : logger = FileLoggerNew(path)

LoggerStep(l) ==
    logger' = l /\ UNCHANGED <<sessVars, pool, body, parser, ehlo, codec, addr>>

Noted(l, dir, data) ==
    [l EXCEPT !.hist = Append(@, [dir |-> dir, data |-> data,
                                  on |-> logger.enabled /\ logger.has_file])]

\* MailerConnection::write hands the sink the bytes it is about to write.
LogClient ==
    /\ logger.at = "run" /\ Len(logger.hist) < MaxChunks
    /\ \E data \in Chunks : LoggerStep(Noted(client(logger, data), "C", data))

\* Parser::recv_char hands the sink what it read.
LogServer ==
    /\ logger.at = "run" /\ Len(logger.hist) < MaxChunks
    /\ \E data \in Chunks : LoggerStep(Noted(server(logger, data), "S", data))

\* Logger::disable
LogDisable == logger.at = "run" /\ LoggerStep([logger EXCEPT !.enabled = FALSE])

\* Logger::enable
LogEnable == logger.at = "run" /\ LoggerStep([logger EXCEPT !.enabled = TRUE])

NextLogger == LogClient \/ LogServer \/ LogDisable \/ LogEnable

SpecLogger == InitLogger /\ [][NextLogger]_vars

\* The log file the format prescribes for the chunks h: a marker before a
\* chunk whose direction differs from the chunk before it, and before the
\* first chunk; the chunk's bytes as they are.
RECURSIVE LogOf(_)
LogOf(h) ==
    IF h = <<>> THEN <<>>
    ELSE LET n == Len(h) IN
         (LogOf(SubSeq(h, 1, n - 1))
            \o (IF n = 1 \/ h[n].dir # h[n - 1].dir
                THEN <<h[n].dir \o ": ">> ELSE <<>>))
            \o h[n].data

ChunkOn(c) == c.on

(***************************************************************************)
(* The address validator (check_address, lib.rs) and the commands rendered *)
(* for an address (Command::to_string, connection/protocol.rs).  An        *)
(* address is a sequence of chars: "a" a letter, "1" a digit, "_", ".",    *)
(* "-", "@", " ", ">", "CR", "LF".                                         *)
(***************************************************************************)
\* Largest number of chars that follow the head of an address.
MaxSuffix == 2

\* [a-z0-9_+], [a-z0-9] and [a-z] among the chars explored.
LocalChars == {"a", "1", "_"}
AlnumChars == {"a", "1"}
LetterChars == {"a"}

\* [a-z0-9_+]([a-z0-9_+.]*[a-z0-9_+])?
MatchLocal(l) ==
    /\ Len(l) >= 1
    /\ \A i \in DOMAIN l : l[i] \in LocalChars \cup {"."}
    /\ l[1] \in LocalChars /\ l[Len(l)] \in LocalChars

\* [a-z0-9]+([\-\.]{1}[a-z0-9]+)*
MatchLabels(d) ==
    /\ Len(d) >= 1
    /\ \A i \in DOMAIN d : d[i] \in AlnumChars \cup {"-", "."}
    /\ d[1] \in AlnumChars /\ d[Len(d)] \in AlnumChars
    /\ \A i \in 1..(Len(d) - 1) : d[i] \in AlnumChars \/ d[i + 1] \in AlnumChars

\* [a-z]{2,6}
MatchTld(t) == Len(t) \in 2..6 /\ \A i \in DOMAIN t : t[i] \in LetterChars

\* The whole pattern on the whole of t: local part, "@", labels, ".", tld.
MatchAll(t) ==
    \E i \in DOMAIN t, j \in DOMAIN t :
        /\ i < j /\ t[i] = "@" /\ t[j] = "."
        /\ MatchLocal(SubSeq(t, 1, i - 1))
        /\ MatchLabels(SubSeq(t, i + 1, j - 1))
        /\ MatchTld(SubSeq(t, j + 1, Len(t)))

\* check_address: Regex::captures finds a match of the pattern, which begins
\* with ^ and has no $: some prefix of the address matches it.
check_address(address) == \E n \in DOMAIN address : MatchAll(SubSeq(address, 1, n))

\* Command::MailFrom(from) and Command::RcptTo(to) as to_string renders them.
CommandToString(verb, address) == (<<verb \o ":<">> \o address) \o <<">", "CR", "LF">>

\* Addresses: one that follows the pattern or nearly does, and what a caller
\* may have left behind it.
AddressHeads ==
    { <<"a", "@", "a", ".", "a", "a">>,
      <<"a", ".", "1", "@", "a", "-", "1", ".", "a", "a">>,
      <<"_", "@", "1", ".", "a", ".", "a", "a">>,
      <<"a", "@", "a", ".", "a">>,
      <<"a", "@", "a", ".", "a", "1">>,
      <<".", "a", "@", "a", ".", "a", "a">>,
      <<"a", ".", "@", "a", ".", "a", "a">>,
      <<"a", "@", "-", "a", ".", "a", "a">>,
      <<"a", "@", "a", ".", ".", "a", "a">>,
      <<"a", " ", "@", "a", ".", "a", "a">>,
      <<"a", "a", ".", "a", "a">>,
      <<>> }
AddressTails == {<<>>} \cup SeqUpTo({"a", " ", ">", "CR", "LF"}, MaxSuffix)

InitAddr ==
    /\ SessInit([retries |-> 0, auto_quit |-> FALSE, pipeline |-> TRUE])
    /\ pool = NoPool /\ body = NoBody /\ parser = NoParser /\ ehlo = NoEhlo
    /\ codec = NoCodec /\ logger = NoLogger
    /\ \E h \in AddressHeads, t \in AddressTails :
          addr = [at |-> "input", address |-> h \o t, ok |-> FALSE, command |-> <<>>]

AddrStep(a) == addr' = a /\ UNCHANGED <<sessVars, pool, body, parser, ehlo, codec, logger>>

\* try_send_mail: check_address(..)? on the address of the mail.
AddrCheck ==
    /\ addr.at = "input"
    /\ AddrStep([addr EXCEPT !.at = "checked", !.ok = check_address(addr.address)])

\* command_mail_from / command_mail_to: the command of an accepted address.
AddrRender ==
    /\ addr.at = "checked" /\ addr.ok
    /\ \E verb \in {"MAIL FROM", "RCPT TO"} :
          AddrStep([addr EXCEPT !.at = "rendered",
                                !.command = CommandToString(verb, addr.address)])

NextAddr == AddrCheck \/ AddrRender

SpecAddr == InitAddr /\ [][NextAddr]_vars

(***************************************************************************)
(* Properties.                                                             *)
(***************************************************************************)

\* C1: once the session was upgraded to TLS on a socket, every later read
\* and write on that socket that moves bytes goes through the TLS session,
\* also after a failed read or write, in a retry and in a later close.
C1_EncryptedAfterUpgrade ==
    (upgraded /\ io.res = "ok" /\ io.cmd # "STARTTLS") => io.via = "tls"

\* C2: when the EHLO after a STARTTLS upgrade has succeeded, a capability
\* is Supported only if the reply to that EHLO advertised it.
C2_NoCapabilityLeak ==
    (upgraded /\ io.cmd = "EHLO" /\ io.dir = "r" /\ io.res = "ok" /\ fail = NoFail)
        => \A c \in Caps : meta[c] = "Supported" => c \in io.adv

\* C3: when the EHLO after a STARTTLS upgrade has succeeded, auth_plain is
\* Supported exactly if the reply to that EHLO advertised AUTH PLAIN, and the
\* client is about to send AUTH PLAIN on an upgraded session only if it did.
C3_PlainRediscovered ==
    /\ (upgraded /\ io.cmd = "EHLO" /\ io.dir = "r" /\ io.res = "ok" /\ fail = NoFail)
          => (meta.auth_plain = "Supported" <=> "auth_plain" \in io.adv)
    /\ (upgraded /\ pc = "plain_send")
          => (io.cmd = "EHLO" /\ io.dir = "r" /\ "auth_plain" \in io.adv)

\* C3 happens: AUTH PLAIN was Supported before the upgrade, the reply to the
\* EHLO after the upgrade does not list it, and the client goes on without
\* AUTH PLAIN.
C3_Witness ==
    /\ upgraded /\ io.cmd = "EHLO" /\ io.dir = "r" /\ io.res = "ok" /\ fail = NoFail
    /\ io.plain
    /\ "auth_plain" \notin io.adv
    /\ pc # "plain_send"

\* C4: after STARTTLS was answered 220 and the session upgraded, the next
\* step of the session writes EHLO.
C4_EhloAfterStartTls ==
    [][ (io.cmd = "STARTTLS" /\ io.dir = "r" /\ io.res = "ok" /\ fail = NoFail)
            => (io'.cmd = "EHLO" /\ io'.dir = "w") ]_vars

\* C4 happens: the EHLO that follows the upgrade has been written through
\* the TLS session.
C4_Witness ==
    upgraded /\ pc = "ehlo2_recv" /\ io.cmd = "EHLO" /\ io.dir = "w" /\ io.via = "tls"

\* C5: an operation called after a 421 made the session terminate returns
\* ServerUnavailable or Network.
C5_ClosedAfter421 ==
    (pc = "returned" /\ late421 /\ op \in {"connect", "send_mail", "close"})
        => result \in {"ServerUnavailable", "Network"}

\* C6: a reply with a line coded 421 or 554 at any position, read at any
\* stage, leaves the session terminated (socket shut down, TLS session
\* discarded, every capability Unknown) and fails the attempt with
\* ServerUnavailable.
C6_FatalLineTerminates ==
    (io.dir = "r" /\ io.bad)
        => /\ sock = "shut"
           /\ tlscon = "none"
           /\ meta = MetaNew
           /\ fail.err = "ServerUnavailable"

\* C7: connect returns Ok only after at most config.retries failed attempts,
\* and returns an error that arose as Network, DNS, ServerUnavailable or
\* ServerUnreachable, at whatever step, only when config.retries + 1 attempts
\* have failed.
C7_RetryBudget ==
    (op = "connect" /\ pc = "returned")
        => /\ result = "Ok" => nfail <= cfg.retries
           /\ (result # "Ok"
                 /\ fail.cause \in {"Network", "DNS", "ServerUnavailable", "ServerUnreachable"})
                => nfail = cfg.retries + 1

C9_GreetingErrors ==
    /\ (io.cmd = "greeting" /\ io.res = "ok" /\ io.code # 220) => fail.err = "Protocol"
    /\ fail.err = "InvalidServer" => (io.cmd = "greeting" /\ io.res \in {"net", "garbled"})

\* C10: send_mail takes the pipelined mode exactly if the configuration
\* enables pipelining and the server's pipelining capability is Supported.
C10_PipelineMode ==
    pc \in {"mp_from_w", "ms_from_w"}
        => (pc = "mp_from_w" <=> (cfg.pipeline /\ meta.pipelining = "Supported"))

\* C11: an attempt of send_mail whose from or to address fails the validator
\* ends with MailBoxName of that address, one whose mail carries attachments
\* while 8bitmime is not Supported ends with MIMENotSupported; in both cases
\* the step touches no transport and leaves the socket, the TLS session and
\* the capabilities as they were, and send_mail returns the error.
C11_PreChecks ==
    [][ pc = "m_check" =>
          /\ ~CheckAddress(mail.from)
                => (fail'.err = "MailBoxName" /\ fail'.arg = mail.from)
          /\ (CheckAddress(mail.from) /\ ~CheckAddress(mail.to))
                => (fail'.err = "MailBoxName" /\ fail'.arg = mail.to)
          /\ (CheckAddress(mail.from) /\ CheckAddress(mail.to)
                /\ mail.attachments /\ meta.eight_bit_mime # "Supported")
                => fail'.err = "MIMENotSupported"
          /\ fail'.err \in {"MailBoxName", "MIMENotSupported"}
                => /\ io' = NoIo
                   /\ UNCHANGED <<sock, tlscon, meta, upgraded>>
                   /\ pc' = "returned"
                   /\ result' = fail'.err
      ]_vars

\* C11 happens: on a session under TLS, send_mail has returned
\* MIMENotSupported from its first attempt without touching the transport.
C11_Witness ==
    /\ op = "send_mail" /\ pc = "returned" /\ nfail = 1
    /\ result = "MIMENotSupported"
    /\ io = NoIo
    /\ tlscon = "live"

\* C13: when the last EHLO reply of an attempt advertises AUTH PLAIN and
\* AUTH LOGIN, the attempt goes on with AUTH PLAIN; AUTH LOGIN is sent only
\* while auth_plain is not Supported; each AUTH command follows an EHLO reply
\* directly, and the attempt ends with the reply to AUTH PLAIN or with the
\* reply to the LOGIN password, so an attempt sends at most one AUTH command.
C13_PlainPreferred ==
    /\ (io.cmd = "EHLO" /\ io.dir = "r" /\ io.res = "ok" /\ fail = NoFail
          /\ pc # "starttls_send" /\ {"auth_plain", "auth_login"} \subseteq io.adv)
          => pc = "plain_send"
    /\ pc = "login_send" => meta.auth_plain # "Supported"
    /\ pc \in {"plain_send", "login_send"} => (io.cmd = "EHLO" /\ io.dir = "r")
    /\ (io.dir = "r" /\ io.cmd \in {"AUTH PLAIN", "password"})
          => pc \in {"returned", StartPc(op)}

\* C13 happens: the EHLO reply advertised both mechanisms and the client is
\* about to send AUTH PLAIN.
C13_Witness ==
    /\ pc = "plain_send"
    /\ io.cmd = "EHLO" /\ io.dir = "r"
    /\ {"auth_plain", "auth_login"} \subseteq io.adv
    /\ meta.auth_login = "Supported"

\* C14: an operation called on a session that an explicit close has
\* terminated (QUIT answered 221) does not return Ok.
C14_ClosedAfterQuit ==
    (pc = "returned" /\ lateTerm = "quit" /\ op \in {"connect", "send_mail", "close"})
        => result # "Ok"

\* C15: a 421 in answer to DATA fails the attempt with ServerUnavailable and
\* terminates the session; the send_mail that met it returns
\* ServerUnavailable; a send_mail called on the session so terminated
\* attempts no write and no read.
C15_DataAnswered421 ==
    /\ (io.cmd = "DATA" /\ io.dir = "r" /\ io.res = "ok" /\ io.code = 421)
          => (fail.err = "ServerUnavailable"
                /\ sock = "shut" /\ tlscon = "none" /\ meta = MetaNew)
    /\ (op = "send_mail" /\ pc = "returned" /\ termBy = "data421" /\ lateTerm # "data421")
          => result = "ServerUnavailable"
    /\ (op = "send_mail" /\ lateTerm = "data421") => io.dir = "-"

\* C16: close touches the transport only for QUIT; a reply coded 221 makes
\* close return Ok with the session terminated, and any other well-formed
\* reply fails the attempt with Protocol.
C16_CloseExpects221 ==
    /\ (op \in {"close", "drop"} /\ io.dir # "-") => io.cmd = "QUIT"
    /\ (op \in {"close", "drop"} /\ io.cmd = "QUIT" /\ io.dir = "r" /\ io.res = "ok")
          => IF io.code = 221
             THEN /\ pc = "returned" /\ result = "Ok"
                  /\ sock = "shut" /\ tlscon = "none" /\ meta = MetaNew
             ELSE fail.err = "Protocol"
    /\ (op \in {"close", "drop"} /\ pc = "returned" /\ result = "Ok")
          => (io.cmd = "QUIT" /\ io.dir = "r" /\ io.code = 221)

\* C16, amended: as above, but a reply whose first line is coded 421 or 554
\* fails the attempt with ServerUnavailable, the session terminated, and
\* only the remaining codes fail it with Protocol.
C16_CloseExpects221Amended ==
    /\ (op \in {"close", "drop"} /\ io.dir # "-") => io.cmd = "QUIT"
    /\ (op \in {"close", "drop"} /\ io.cmd = "QUIT" /\ io.dir = "r" /\ io.res = "ok")
          => IF io.code = 221
             THEN /\ pc = "returned" /\ result = "Ok"
                  /\ sock = "shut" /\ tlscon = "none" /\ meta = MetaNew
             ELSE IF io.code \in {421, 554}
                  THEN /\ fail.err = "ServerUnavailable"
                       /\ sock = "shut" /\ tlscon = "none" /\ meta = MetaNew
                  ELSE fail.err = "Protocol"
    /\ (op \in {"close", "drop"} /\ pc = "returned" /\ result = "Ok")
          => (io.cmd = "QUIT" /\ io.dir = "r" /\ io.code = 221)

\* C16 happens: on a session under TLS that had learnt capabilities, QUIT
\* was answered 221 and close has returned Ok.
C16_Witness ==
    /\ op = "close" /\ pc = "returned" /\ result = "Ok"
    /\ io.cmd = "QUIT" /\ io.dir = "r" /\ io.code = 221 /\ io.via = "tls"
    /\ sock = "shut" /\ tlscon = "none" /\ meta = MetaNew

\* C17: destruction runs a close only when auto_quit is configured, and
\* attempts no QUIT on a session that an explicit close has terminated.
C17_AutoQuit ==
    /\ op = "drop" => cfg.auto_quit
    /\ (op = "drop" /\ lateTerm = "quit") => io.cmd # "QUIT"

\* C12: what is on the wire between the blank line that ends the headers and
\* the terminator is the body with every line that begins with a dot given
\* one more leading dot and nothing else altered; no line of it begins with
\* a single dot; CRLF dot CRLF occurs only as the terminator.
C12_DotStuffed ==
    body.at = "sent" =>
        LET w == body.wire
            n == Len(w)
        IN  /\ SubSeq(w, 2, n - 3) = DotStuff(body.text)
            /\ \A i \in 2..(n - 3) :
                  (w[i] = "." /\ w[i - 1] = "CRLF") => (i + 1 <= n - 3 /\ w[i + 1] = ".")
            /\ \A i \in 1..(n - 2) :
                  (w[i] = "CRLF" /\ w[i + 1] = "." /\ w[i + 2] = "CRLF") => i = n - 2

\* C18: in a pool whose session operations all succeed, under every
\* interleaving the returned result vector has one slot per mail, every slot
\* Ok, and each mail has been popped once and sent once; in every pool no
\* mail is popped twice or sent more often than popped.
C18_AllOkNoDuplicatesNoDrops ==
    pool.at # "-" =>
       /\ \A m \in DOMAIN pool.popped :
             pool.popped[m] <= 1 /\ Len(pool.sent[m]) <= pool.popped[m]
       /\ (pool.at = "returned" /\ pool.mock) =>
             /\ DOMAIN pool.results = 0..(pool.n - 1)
             /\ \A i \in DOMAIN pool.results : pool.results[i] = "Ok"
             /\ \A m \in 0..(pool.n - 1) :
                   pool.popped[m] = 1 /\ pool.sent[m] = <<"Ok">>

C18_Witness ==
    /\ pool.at = "returned" /\ pool.mock /\ pool.n >= 2
    /\ Cardinality(DOMAIN pool.ws) >= 2
    /\ \A w \in DOMAIN pool.ws : pool.ws[w].pc = "done"
    /\ \A m \in 0..(pool.n - 1) : pool.sent[m] = <<"Ok">>

C20_OverallResult ==
    pool.at = "returned" =>
       /\ pool.overall = "ServerUnreachable"
             <=> \A w \in Workers : pool.ws[w].pc = "failed"
       /\ (\E w \in Workers : pool.ws[w].pc # "failed") =>
             /\ pool.overall = "Ok"
             /\ pool.queue = <<>>
             /\ \A m \in 0..(pool.n - 1) :
                   pool.popped[m] >= 1 /\ Len(pool.sent[m]) >= 1

C20_Witness ==
    /\ pool.at = "returned" /\ pool.overall = "Ok" /\ pool.n >= 2
    /\ \E w \in Workers : pool.ws[w].pc = "failed"
    /\ \E w \in Workers : pool.ws[w].pc = "done"
    /\ \E i \in DOMAIN pool.results : pool.results[i] = "Failed"

\* C21: connect returns Ok only from an attempt whose last step read the
\* reply to the credentials (AUTH PLAIN, or the password of AUTH LOGIN) with
\* code 235.
C21_ConnectedIsAuthenticated ==
    (op = "connect" /\ pc = "returned" /\ result = "Ok")
       => (io.dir = "r" /\ io.cmd \in {"AUTH PLAIN", "password"} /\ io.res = "ok"
             /\ io.code = 235)

\* C21, amended: connect returns Ok only from an attempt whose last step
\* read the reply to the credentials with code 235, or read an EHLO reply
\* after which neither auth_plain nor auth_login is Supported.
C21_AuthenticatedIfSupported ==
    (op = "connect" /\ pc = "returned" /\ result = "Ok")
       => \/ (io.dir = "r" /\ io.cmd \in {"AUTH PLAIN", "password"} /\ io.res = "ok"
                /\ io.code = 235)
          \/ (io.dir = "r" /\ io.cmd = "EHLO" /\ io.res = "ok"
                /\ meta.auth_plain # "Supported" /\ meta.auth_login # "Supported")

C21_Witness ==
    /\ op = "connect" /\ pc = "returned" /\ result = "Ok" /\ nfail = 1
    /\ io.cmd = "password" /\ io.code = 235 /\ io.via = "tls"

\* C22: the authentication of an attempt starts right after an EHLO reply
\* was read; if that reply came over the plain socket it does not advertise
\* STARTTLS, and otherwise it came through the TLS session made by start_tls
\* on this socket, through which every AUTH command and credential token of
\* the attempt is then written.
C22_NoCredentialsBeforeTls ==
    /\ pc \in {"plain_send", "login_send"}
          => /\ io.cmd = "EHLO" /\ io.dir = "r" /\ io.res = "ok"
             /\ IF upgraded THEN io.via = "tls" /\ tlscon = "live"
                            ELSE io.via = "plain" /\ "tls" \notin io.adv
    /\ (pc \in {"plain_send", "plain_recv", "login_send", "login_chal1", "login_user",
                "login_end1", "login_chal2", "login_pass", "login_end2", "login_result"}
          /\ upgraded) => tlscon = "live"
    /\ (io.dir = "w" /\ io.cmd \in {"AUTH PLAIN", "AUTH LOGIN", "username", "password"}
          /\ upgraded) => io.via = "tls"

C22_Witness ==
    /\ op = "connect" /\ upgraded /\ pc = "login_end2"
    /\ io.dir = "w" /\ io.cmd = "password" /\ io.via = "tls" /\ io.res = "ok"

\* C23: every reply that recv_reply returns has at least one line, its final
\* line is a last line and no line before it is.
C23_OneLastLine ==
    (parser.at = "done" /\ parser.ret = "Ok" /\ (parser.kind = "reply" \/ parser.inner))
       => LET ls == parser.lines IN
          /\ Len(ls) >= 1
          /\ ls[Len(ls)].last
          /\ \A i \in 1..(Len(ls) - 1) : ~ls[i].last

C23_Witness ==
    /\ parser.at = "done" /\ parser.ret = "Ok" /\ parser.kind = "reply"
    /\ Len(parser.lines) = 2 /\ parser.start > 0

\* C24: a line whose three digits are followed directly by CR LF is made
\* with empty text and as a last line, and the read returns with it.
C24_BareCodeIsLast ==
    (parser.at \in {"run", "done"} /\ parser.line # <<>>
       /\ (parser.at = "done" => parser.ret = "Ok")
       /\ (parser.at = "run" => parser.pc = "prime")
       /\ parser.sep \notin {" ", "-"})
       => /\ parser.line[1].text = <<>>
          /\ parser.line[1].last
          /\ parser.at = "done"

\* C25: a read that returns Ok on a stream that holds a well-formed reply
\* where the read began has consumed the bytes of that reply, up to its last
\* LF, and no more.
C25_ConsumesOneReply ==
    (parser.at = "done" /\ parser.ret = "Ok")
       => LET r == WellFormedReply(parser.wire, parser.start) IN
          r.ok => parser.pos = r.end

\* C26: after a handshake that succeeded no capability is Unknown, and a
\* capability is Supported exactly if the EHLO reply just read advertises it.
C26_NoUnknownAfterEhlo ==
    (io.cmd = "EHLO" /\ io.dir = "r" /\ io.res = "ok" /\ fail = NoFail)
       => \A c \in Caps :
             /\ meta[c] # "Unknown"
             /\ meta[c] = "Supported" <=> c \in io.adv

\* C27: a capability that handshake() sets Supported is advertised by a line
\* of the reply after its first line; the first line sets none.
C27_FirstLineSetsNothing ==
    ehlo.at = "done" =>
       \A c \in Caps :
          (ehlo.out[c] = "Supported" /\ HandshakeReset(ehlo.meta, ehlo.tls)[c] # "Supported")
             => \E i \in 2..Len(ehlo.lines) : Advertises(ehlo.lines[i], c)

\* C28: in the pipelined mode each step follows the transport access before
\* it in this order: MAIL FROM, RCPT TO and DATA written, the replies to
\* MAIL FROM, RCPT TO and DATA read and accepted, the payload and the
\* terminator written, the final reply read.
C28_PipelinedOrder ==
    /\ pc \in {"mp_from_w", "mp_to_w", "mp_data_w", "mp_from_r", "mp_to_r", "mp_data_r"}
          => meta.pipelining = "Supported"
    /\ pc = "mp_from_w" => io = NoIo
    /\ pc = "mp_to_w" => (io.dir = "w" /\ io.cmd = "MAIL FROM" /\ io.res = "ok")
    /\ pc = "mp_data_w" => (io.dir = "w" /\ io.cmd = "RCPT TO" /\ io.res = "ok")
    /\ pc = "mp_from_r" => (io.dir = "w" /\ io.cmd = "DATA" /\ io.res = "ok")
    /\ pc = "mp_to_r"
          => (io.dir = "r" /\ io.cmd = "MAIL FROM" /\ io.res = "ok" /\ io.code = 250)
    /\ pc = "mp_data_r"
          => (io.dir = "r" /\ io.cmd = "RCPT TO" /\ io.res = "ok" /\ io.code \in {250, 251})
    /\ (pc = "m_payload" /\ meta.pipelining = "Supported")
          => (io.dir = "r" /\ io.cmd = "DATA" /\ io.res = "ok" /\ io.code = 354)
    /\ pc \in {"m_hdr_to", "m_hdr_subject", "m_blank", "m_text", "m_term"}
          => (io.dir = "w" /\ io.cmd = "payload" /\ io.res = "ok")
    /\ pc = "m_final" => (io.dir = "w" /\ io.cmd = "terminator" /\ io.res = "ok")
    /\ (io.cmd = "terminator" /\ io.dir = "r") => pc \in {"returned", "m_check"}
    /\ (io.dir = "w" /\ io.cmd = "payload" /\ io.res = "ok")
          => pc \in {"m_hdr_to", "m_hdr_subject", "m_blank", "m_text", "m_term"}

C28_Witness ==
    /\ op = "send_mail" /\ pc = "returned" /\ result = "Ok"
    /\ meta.pipelining = "Supported"
    /\ io.dir = "r" /\ io.cmd = "terminator" /\ io.code = 250

\* C29: the payload is written only after the reply to DATA was read with
\* code 354; any other well-formed reply to DATA fails the attempt with
\* Protocol, and the next transport access is not a payload write.
C29_DataExpects354 ==
    /\ pc = "m_payload"
          => (io.dir = "r" /\ io.cmd = "DATA" /\ io.res = "ok" /\ io.code = 354)
    /\ (io.dir = "r" /\ io.cmd = "DATA" /\ io.res = "ok" /\ io.code # 354)
          => (fail.err = "Protocol" /\ pc \in {"returned", "m_check"})

\* C29, amended: as above, but a reply to DATA whose first line is coded 421
\* or 554 fails the attempt with ServerUnavailable, the session terminated,
\* and only the remaining codes other than 354 fail it with Protocol.
C29_DataExpects354Amended ==
    /\ pc = "m_payload"
          => (io.dir = "r" /\ io.cmd = "DATA" /\ io.res = "ok" /\ io.code = 354)
    /\ (io.dir = "r" /\ io.cmd = "DATA" /\ io.res = "ok" /\ io.code # 354)
          => /\ pc \in {"returned", "m_check"}
             /\ IF Fatal(io.code)
                THEN fail.err = "ServerUnavailable" /\ sock = "shut" /\ meta = MetaNew
                ELSE fail.err = "Protocol"

C29_Witness ==
    /\ op = "send_mail" /\ pc = "returned" /\ result = "Protocol"
    /\ io.dir = "r" /\ io.cmd = "DATA" /\ io.res = "ok" /\ io.code = 250
    /\ meta.pipelining = "Supported"

\* C30: the reply to RCPT TO is classified by its code: 250 and 251 let the
\* attempt go on, 550 and 450 fail it with Policy, 553 with MailBoxName of
\* the to address, 551 with Forward of the reply's text, every other code
\* with Protocol.
C30_RcptToReply ==
    (io.dir = "r" /\ io.cmd = "RCPT TO" /\ io.res = "ok")
       => CASE io.code \in {250, 251} -> fail = NoFail /\ pc \in {"ms_data_w", "mp_data_r"}
            [] io.code \in {550, 450} -> fail.err = "Policy"
            [] io.code = 553 -> fail.err = "MailBoxName" /\ fail.arg \in ToAddrs
            [] io.code = 551 -> fail.err = "Forward" /\ fail.arg = "hi"
            [] OTHER -> fail.err = "Protocol"

\* C30, amended: as above, but a reply whose first line is coded 421 or 554
\* fails the attempt with ServerUnavailable, the session terminated; the
\* codes that remain fail it with Protocol.
C30_RcptToReplyAmended ==
    (io.dir = "r" /\ io.cmd = "RCPT TO" /\ io.res = "ok")
       => CASE io.code \in {250, 251} -> fail = NoFail /\ pc \in {"ms_data_w", "mp_data_r"}
            [] io.code \in {550, 450} -> fail.err = "Policy"
            [] io.code = 553 -> fail.err = "MailBoxName" /\ fail.arg \in ToAddrs
            [] io.code = 551 -> fail.err = "Forward" /\ fail.arg = "hi"
            [] Fatal(io.code) ->
                  fail.err = "ServerUnavailable" /\ sock = "shut" /\ meta = MetaNew
            [] OTHER -> fail.err = "Protocol"

C30_Witness ==
    /\ op = "send_mail" /\ pc = "returned" /\ result = "Forward"
    /\ io.dir = "r" /\ io.cmd = "RCPT TO" /\ io.code = 551 /\ fail.arg = "hi"

\* C31: AUTH LOGIN alternates strictly: the user name is written only after
\* the reply to AUTH LOGIN was read with code 334, the password only after
\* the reply to the user name was read with code 334; a challenge with any
\* other code fails the attempt with Protocol and nothing more is written;
\* the final reply gives Ok on 235, InvalidCred on 535 or 550, Protocol on
\* every other code.
C31_LoginAlternates ==
    /\ pc = "login_user"
          => (io.dir = "r" /\ io.cmd = "AUTH LOGIN" /\ io.res = "ok" /\ io.code = 334)
    /\ pc = "login_pass"
          => (io.dir = "r" /\ io.cmd = "username" /\ io.res = "ok" /\ io.code = 334)
    /\ (io.dir = "r" /\ io.cmd \in {"AUTH LOGIN", "username"} /\ io.res = "ok"
            /\ io.code # 334)
          => (fail.err = "Protocol" /\ pc \in {"returned", "resolve"})
    /\ (io.dir = "r" /\ io.cmd = "password" /\ io.res = "ok")
          => CASE io.code = 235 -> pc = "returned" /\ result = "Ok"
               [] io.code \in {535, 550} -> pc = "returned" /\ result = "InvalidCred"
               [] OTHER -> fail.err = "Protocol" /\ pc \in {"returned", "resolve"}

\* C31, amended: as above, but a challenge or a final reply whose first line
\* is coded 421 or 554 fails the attempt with ServerUnavailable, the session
\* terminated; the codes that remain fail it with Protocol.
C31_LoginAlternatesAmended ==
    /\ pc = "login_user"
          => (io.dir = "r" /\ io.cmd = "AUTH LOGIN" /\ io.res = "ok" /\ io.code = 334)
    /\ pc = "login_pass"
          => (io.dir = "r" /\ io.cmd = "username" /\ io.res = "ok" /\ io.code = 334)
    /\ (io.dir = "r" /\ io.cmd \in {"AUTH LOGIN", "username"} /\ io.res = "ok"
            /\ io.code # 334)
          => /\ pc \in {"returned", "resolve"}
             /\ IF Fatal(io.code)
                THEN fail.err = "ServerUnavailable" /\ sock = "shut" /\ meta = MetaNew
                ELSE fail.err = "Protocol"
    /\ (io.dir = "r" /\ io.cmd = "password" /\ io.res = "ok")
          => CASE io.code = 235 -> pc = "returned" /\ result = "Ok"
               [] io.code \in {535, 550} -> pc = "returned" /\ result = "InvalidCred"
               [] Fatal(io.code) ->
                     /\ fail.err = "ServerUnavailable" /\ sock = "shut" /\ meta = MetaNew
                     /\ pc \in {"returned", "resolve"}
               [] OTHER -> fail.err = "Protocol" /\ pc = "returned"

C31_Witness ==
    /\ op = "connect" /\ pc = "returned" /\ result = "Protocol"
    /\ io.dir = "r" /\ io.cmd = "username" /\ io.res = "ok" /\ io.code = 250

\* C32: the AUTH PLAIN token decodes to NUL, the user name's bytes, NUL, the
\* password's bytes, and encoding followed by decoding gives the bytes back
\* (decoding followed by encoding the token).
C32_PlainTokenDecodes ==
    /\ codec.at = "plain"
          => B64Decode(codec.token) = <<0>> \o Utf8(codec.u) \o <<0>> \o Utf8(codec.p)
    /\ codec.at = "login" => B64Decode(codec.token) = Utf8(codec.u)
    /\ codec.at \in {"plain", "login"} => B64Encode(B64Decode(codec.token)) = codec.token

\* C33: the log file is the chunks handed to the sink while it was enabled,
\* byte for byte, with one marker before each maximal run of chunks of one
\* direction, so the markers in the file alternate; chunks handed to a
\* disabled sink leave no trace.
C33_LogFileFormat ==
    logger.at = "run" =>
       LET markers == SelectSeq(logger.file, LAMBDA b : b \in {"C: ", "S: "}) IN
       /\ logger.file = LogOf(SelectSeq(logger.hist, ChunkOn))
       /\ \A i \in 1..(Len(markers) - 1) : markers[i] # markers[i + 1]

C33_Witness ==
    /\ logger.at = "run" /\ Len(logger.hist) = 4
    /\ logger.hist[1].dir = "C" /\ logger.hist[1].on
    /\ logger.hist[2].dir = "S" /\ ~logger.hist[2].on /\ logger.hist[2].data # <<>>
    /\ logger.hist[3].dir = "C" /\ logger.hist[3].on
    /\ logger.hist[4].dir = "S" /\ logger.hist[4].on
    /\ logger.file = <<"C: ", "x", "y", "x", "S: ", "x">>

\* The replies to commands of the transaction that try_send_mail has not read
\* when it stops after reading the reply to io.cmd: the commands it wrote
\* before that read (all three in pipelined mode, one more per reply in serial
\* mode, the payload as the fourth) less the replies it read.
Unread ==
    LET read == CASE io.cmd = "MAIL FROM" -> 1
                  [] io.cmd = "RCPT TO" -> 2
                  [] io.cmd = "DATA" -> 3
                  [] OTHER -> 4
        written == IF Pipelined(cfg, meta) /\ read < 3 THEN 3 ELSE read
    IN  written - read

\* C34: when send_mail has returned Ok, or an error made of a reply's code
\* (Policy, MailBoxName, Forward, Protocol), no reply to a command of the
\* transaction is left unread, in serial and in pipelined mode.
C34_NoReplyLeftUnread ==
    ( /\ op = "send_mail" /\ pc = "returned"
      /\ result \in {"Ok", "Policy", "MailBoxName", "Forward", "Protocol"}
      /\ io.dir = "r" /\ io.res = "ok"
      /\ io.cmd \in {"MAIL FROM", "RCPT TO", "DATA", "terminator"} )
       => Unread = 0

\* C35: every reply read ends, also when the peer has closed the connection:
\* a Parser that is reading eventually returns.
C35_ReadTerminates == (parser.at = "run") ~> (parser.at = "done")

\* C36: every attempt of connect starts with no TLS session attached, and
\* the greeting of the freshly dialled socket is read from the socket itself.
C36_AttemptStartsWithoutTls ==
    /\ (op = "connect" /\ pc \in {"resolve", "dial", "greet"}) => ~IsTls(tlscon)
    /\ (io.cmd = "greeting" /\ io.dir = "r") => io.via = "plain"

\* C37: within one call of send_mail the payload and its terminator are
\* written in full at most once, whatever the retry budget.
C37_PayloadSentOnce == op = "send_mail" => sent <= 1

\* C38: a call of connect, send_mail or close makes at most retries + 1
\* attempts: the budget starts at the configured count, each failed attempt
\* that is retried takes one from it, it never goes below zero; the call
\* returns Ok, or the error of its last attempt, which is an error that is
\* not retriable or one that found the budget empty.
C38_BoundedAttempts ==
    /\ retries \in 0..cfg.retries
    /\ nfail <= cfg.retries + 1
    /\ pc \notin {"idle", "returned", "dropped"} => retries + nfail = cfg.retries
    /\ (pc = "returned" /\ result = "Ok") => (nfail <= cfg.retries /\ fail = NoFail)
    /\ (pc = "returned" /\ result # "Ok")
          => /\ fail.err = result /\ ~fail.retried
             /\ Retriable(result) => (fail.budget = 0 /\ nfail = cfg.retries + 1)

C38_Witness ==
    /\ op = "close" /\ pc = "returned" /\ result = "Network"
    /\ cfg.retries = 1 /\ nfail = 2 /\ fail.budget = 0

\* C39: when close has returned, with Ok or with an error, the socket is shut
\* down, the TLS session is gone and every capability is Unknown.
C39_CloseAlwaysTerminates ==
    (op = "close" /\ pc = "returned")
       => (sock = "shut" /\ tlscon = "none" /\ meta = MetaNew)

\* C40: an address that check_address accepts has none but the chars of the
\* pattern, and the command rendered for it is one line: its only CR and
\* only LF are its last two chars.
C40_AcceptedIsOneLine ==
    /\ (addr.at = "checked" /\ addr.ok)
          => \A i \in DOMAIN addr.address :
                addr.address[i] \in LocalChars \cup {".", "-", "@"}
    /\ addr.at = "rendered"
          => LET c == addr.command
                 n == Len(c)
             IN  /\ c[n - 1] = "CR" /\ c[n] = "LF"
                 /\ \A i \in 1..(n - 2) : c[i] \notin {"CR", "LF"}
====
